---- MODULE Spec2Model ----
(***************************************************************************)
(* bun-curl2: the Cache/Admission Orchestrator (function Http of           *)
(* src/services/http.ts) together with the external transport process and  *)
(* the cache store it drives.  Every `await` of Http is a suspension       *)
(* point; one action of the model is the code that runs between two        *)
(* suspension points of one call.                                          *)
(***************************************************************************)
EXTENDS Integers, FiniteSets, Sequences, Bags, TLC

\* ---- bounds -------------------------------------------------------------
NumCalls == 2          \* number of Http calls issued in a behaviour
MaxConcurrent == 1     \* init.maxConcurrentRequests
MaxBodySize == 2       \* init.maxBodySize (in body-length units)

\* ---- values -------------------------------------------------------------
\* Raw text of one external invocation (process stdout / cache value):
\*   "empty" holds no status line and no header/body separator,
\*   "ok"    holds one response frame with a body within the size limit,
\*   "big"   holds one response frame whose body exceeds the size limit.
RawTexts == {"empty", "ok", "big"}

findHttpStarts(raw) == IF raw = "empty" THEN 0 ELSE 1
findCRLFCRLF(raw) == raw # "empty"
bodyLength(raw) ==
  CASE raw = "ok" -> 1
    [] raw = "big" -> MaxBodySize + 1
    [] OTHER -> 0

\* options.cache: undefined/false, true, an object with a validate function
\* (an object without one behaves as one whose validator answers true)
CacheOptions == {"off", "true", "validate"}
\* init.cache.server: absent, the process-local TTLCache, a RedisClient
CacheServers == {"none", "TTLCache", "RedisClient"}

\* positions of a call between line 731 and the finally of line 909
InvocationPcs ==
  {"BuildCommand", "parseReader", "race", "raceWon", "abortExit",
   "procExited", "validate", "cacheSet"}

NoResp == [err |-> "unbuilt", cached |-> FALSE, raw |-> "none"]

VARIABLES
  concurrentRequests,  \* the module-level in-flight counter
  cacheServer,         \* which store init.cache.server is
  store,               \* value held by the store for the request's key
  call,                \* the calls made so far, a bag of call records:
                       \* position, options, process, result of each
  burst,               \* TRUE while nothing but call starts has happened
  now,                 \* Date.now(), in milliseconds
  data,                \* TTLCache.data: the entries in insertion order
  config,              \* TTLCache options.maxItems, init.cache.defaultExpiration
  probe                \* a function under examination: input and result

vars == <<concurrentRequests, cacheServer, store, call, burst,
          now, data, config, probe>>
\* what Http itself works on, and what is examined aside of it
httpVars == <<concurrentRequests, cacheServer, store, call, burst>>
aside == <<now, data, config, probe>>

\* Calls share nothing but the counter and the store, so a call is known
\* by its record alone; a call that was not made yet is not in the bag.
\* pc: the await the call is suspended at; cache, stream: its options;
\* firedAt: when its signal fired ("-" not yet, "idle" before the call,
\* "early" before the spawn, "pre" before the race began, "race" while
\* stdout was read, "late" after the read completed, "done" after the
\* call settled); listener: abort listener registered; cacheKey: the
\* local of line 706 is set; proc: the subprocess; killed: proc.kill()
\* was called; exitCode: proc.exitCode as read at line 854 (-1 before);
\* resp: the envelope built; outcome: how the call settled; reads,
\* spawns, writes: cache gets issued, processes spawned, cache sets
\* completed by this call; valid: what options.cache.validate answered
\* ("-" when it was not asked); message: the text of the error thrown by
\* the exit code check; transforms: how many times
\* options.transformResponse, which every call supplies, was applied.
IdleCall ==
  [pc |-> "idle", cache |-> "off", stream |-> FALSE,
   firedAt |-> "-", listener |-> FALSE,
   cacheKey |-> FALSE, proc |-> "none", killed |-> FALSE,
   exitCode |-> -1, resp |-> NoResp, outcome |-> "none",
   reads |-> 0, spawns |-> 0, writes |-> 0,
   valid |-> "-", message |-> <<>>, transforms |-> 0]

Init ==
  /\ concurrentRequests = 0
  /\ cacheServer \in CacheServers
  /\ store \in (IF cacheServer = "none" THEN {"none"}
                ELSE {"none", "ok", "empty"})
  /\ call = EmptyBag
  /\ burst = TRUE
  /\ now = 0 /\ data = <<>> /\ config = "none" /\ probe = "none"

\* ---- pieces of Http -----------------------------------------------------
\* Text read from stderr, as a sequence of pieces: "curl: (N)" is a piece
\* the expression /curl:\s*\(\d+\)/ matches, " " is white space, "m" is
\* text of another kind ("m", "n").
\* What the process leaves behind: its exit code and what it wrote.  With
\* exit code 0 stderr is not read (line 855 is not reached); a failed
\* process may have written anything to stdout.
Succeeded == [exitCode : {0}, stdout : RawTexts, stderr : {<<>>}]
Failed ==
  { [exitCode |-> 1, stdout |-> "empty",
     stderr |-> <<" ", "curl: (N)", " ", "m", " ">>],
    [exitCode |-> 1, stdout |-> "ok", stderr |-> <<"n", " ">>],
    [exitCode |-> 1, stdout |-> "big",
     stderr |-> <<"curl: (N)", "m">>] }
ProcessResults == Succeeded \cup Failed

\* String.prototype.trim
RECURSIVE trimStart(_)
trimStart(t) ==
  IF t # <<>> /\ Head(t) = " " THEN trimStart(Tail(t)) ELSE t
RECURSIVE trimEnd(_)
trimEnd(t) ==
  IF t # <<>> /\ t[Len(t)] = " " THEN trimEnd(SubSeq(t, 1, Len(t) - 1))
  ELSE t
trim(t) == trimEnd(trimStart(t))

\* (a message that keeps the text as it was read)
errorMessage_KeepsPrefix(stderrData) == trim(stderrData)
\* line 856: stderrData.trim().replace(/curl:\s*\(\d+\)\s*/, ''): the
\* first match, wherever it is, goes together with the white space after it
errorMessage(stderrData) ==
  LET t == trim(stderrData)
      hits == {i \in 1..Len(t) : t[i] = "curl: (N)"}
  IN IF hits = {} THEN t
     ELSE LET i == CHOOSE j \in hits : \A k \in hits : j <= k
          IN SubSeq(t, 1, i - 1) \o trimStart(SubSeq(t, i + 1, Len(t)))

\* (an envelope of whatever length)
buildResponse_NoSizeCheck(raw, cached) ==
  [err |-> "none", cached |-> cached, raw |-> raw]
\* buildResponse: the body-size check, then the envelope
buildResponse(raw, cached) ==
  IF bodyLength(raw) > MaxBodySize
  THEN [err |-> "ERR_BODY_SIZE_EXCEEDED", cached |-> FALSE, raw |-> "none"]
  ELSE [err |-> "none", cached |-> cached, raw |-> raw]

\* (a build that loses the cached argument)
processAndBuild_DropsCached(raw, cached) ==
  IF findHttpStarts(raw) = 0
  THEN [err |-> "TypeError", cached |-> FALSE, raw |-> "none"]
  ELSE buildResponse(raw, FALSE)
\* processAndBuild: no status line leaves no entry to build from (TypeError)
processAndBuild(raw, cached) ==
  IF findHttpStarts(raw) = 0
  THEN [err |-> "TypeError", cached |-> FALSE, raw |-> "none"]
  ELSE buildResponse(raw, cached)

\* the admission test of line 701
AtCeiling(n) == n >= MaxConcurrent

\* (a gate that forgets the streaming mode)
CacheGate_IgnoresStream(cache, stream) ==
  cache # "off" /\ cacheServer # "none"
\* the gate of the cache lookup, line 709
CacheGate(cache, stream) ==
  cache # "off" /\ cacheServer # "none" /\ ~stream

\* the gate of the cache write, line 874
WriteGate(r) ==
  r.cacheKey /\ cacheServer # "none" /\ r.cache = "validate"

\* concurrentRequests++ (line 731) and the finally block (line 909)
Acquire(n) == n + 1
\* (a finally block that forgets the counter)
Finally_NoRelease(n) == n
Finally(n) == n - 1

\* proc.kill(): a signal to a process that already exited changes nothing
Kill(r) ==
  [r EXCEPT !.killed = TRUE,
            !.proc = IF r.proc = "running" THEN "killed" ELSE r.proc]

Aborted(r) == r.firedAt # "-"

\* the call leaves Http with a result or an error: its locals are gone,
\* what stays is the outcome, the envelope, the subprocess and the counts
\* of processes spawned and cache sets completed (and, with an AbortError,
\* the moment its signal had fired)
Settle(r, outcome) ==
  [IdleCall EXCEPT !.pc = "done", !.outcome = outcome, !.resp = r.resp,
                   !.firedAt = IF outcome = "AbortError" THEN r.firedAt
                               ELSE "-",
                   !.stream = r.stream, !.proc = r.proc,
                   !.exitCode = r.exitCode, !.spawns = r.spawns,
                   !.writes = r.writes,
                   !.valid = r.valid, !.message = r.message,
                   !.transforms = r.transforms]

\* return options.transformResponse ? options.transformResponse(resp)
\* : resp (lines 724, 879, 906): resp stays the envelope handed to the
\* transformer
Return(r) == Settle([r EXCEPT !.transforms = @ + 1], "response")


\* the call with record r goes on as s; a new call enters with record s
Replace(r, s) == (call (-) SetToBag({r})) (+) SetToBag({s})
Enter(s) == call (+) SetToBag({s})

\* ---- the proxy notation: formatProxyString ----------------------------
\* Texts are sequences of tokens.
\* String.prototype.split on a text: the parts between the separators
RECURSIVE split(_, _)
split(s, sep) ==
  LET at == {i \in 1..Len(s) : s[i] = sep}
      first == CHOOSE i \in at : \A j \in at : i <= j
  IN IF at = {} THEN <<s>>
     ELSE <<SubSeq(s, 1, first - 1)>>
            \o split(SubSeq(s, first + 1, Len(s)), sep)

\* Number(port) for the port texts in use; -1 stands for NaN
NumberOf(port) ==
  IF port = <<"8080">> THEN 8080
  ELSE IF port = <<"0">> THEN 0
  ELSE IF port = <<"65536">> THEN 65536
  ELSE -1
isValidPort(port) == NumberOf(port) > 0 /\ NumberOf(port) <= 65535
isValidHost(host) == host # <<>>
Schemes == {"http://", "socks5://"}
ProxyError == <<"[BunCurl2] - Invalid">>

\* formatProxyString: `host:port`, `host:port:user:pass` or
\* `user:pass@host:port`, each after an optional scheme; the normalized
\* URL, or ProxyError where the code throws
formatProxyString(proxy) ==
  LET hasScheme == proxy # <<>> /\ Head(proxy) \in Schemes
      protocol == IF hasScheme THEN Head(proxy) ELSE "http://"
      input == IF hasScheme THEN Tail(proxy) ELSE proxy
      byAt == split(input, "@")
      credentials == split(byAt[1], ":")
      hostPort == split(byAt[2], ":")
      parts == split(input, ":")
      part(p, i) == IF Len(p) >= i THEN p[i] ELSE <<>>
  IN IF Len(byAt) > 1
     THEN IF part(credentials, 1) = <<>> \/ part(credentials, 2) = <<>>
          THEN ProxyError
          ELSE IF ~isValidHost(part(hostPort, 1)) THEN ProxyError
          ELSE IF ~isValidPort(part(hostPort, 2)) THEN ProxyError
          ELSE <<protocol>> \o byAt[1] \o <<"@">> \o part(hostPort, 1)
                 \o <<":">> \o part(hostPort, 2)
     ELSE IF Len(parts) = 2
     THEN IF ~isValidHost(parts[1]) THEN ProxyError
          ELSE IF ~isValidPort(parts[2]) THEN ProxyError
          ELSE <<protocol>> \o parts[1] \o <<":">> \o parts[2]
     ELSE IF Len(parts) = 4
     THEN IF ~isValidHost(parts[1]) THEN ProxyError
          ELSE IF ~isValidPort(parts[2]) THEN ProxyError
          ELSE IF parts[3] = <<>> \/ parts[4] = <<>> THEN ProxyError
          ELSE <<protocol>> \o parts[3] \o <<":">> \o parts[4] \o <<"@">>
                 \o parts[1] \o <<":">> \o parts[2]
     ELSE ProxyError

\* options.proxy: not given, well-formed, malformed
NoProxy == <<>>
Proxies ==
  {NoProxy, <<"h", ":", "8080">>,
   <<"h", ":", "8080", ":", "u", ":", "p">>,
   <<"u", ":", "p", "@", "h", ":", "8080">>,
   <<"socks5://", "h", ":", "8080">>,
   <<"h">>, <<"h", ":", "x">>, <<"h", ":", "0">>, <<":", "8080">>,
   <<"u", "@", "h", ":", "8080">>}
MalformedProxies ==
  {p \in Proxies \ {NoProxy} : formatProxyString(p) = ProxyError}

\* ---- actions ------------------------------------------------------------
\* Http is called: lines 698-731 up to the first await
HttpCall(cache, stream, aborted) ==
  /\ BagCardinality(call) < NumCalls
  /\ LET r == [IdleCall EXCEPT !.cache = cache, !.stream = stream,
                 !.firedAt = IF aborted THEN "idle" ELSE "-"]
     IN IF AtCeiling(concurrentRequests)
        THEN /\ call' = Enter(Settle(r, "ERR_CONCURRENT_REQUESTS_REACHED"))
             /\ UNCHANGED concurrentRequests
        ELSE IF CacheGate(cache, stream)
        THEN /\ call' = Enter([r EXCEPT !.pc = "getCacheKey"])
             /\ UNCHANGED concurrentRequests
        ELSE /\ call' = Enter([r EXCEPT !.pc = "BuildCommand"])
             /\ concurrentRequests' = Acquire(concurrentRequests)
  /\ UNCHANGED <<cacheServer, store, burst>>
  /\ UNCHANGED aside

\* getCacheKey resolved (line 710); cacheServer.get is issued (line 711)
GetCacheKeyDone(r) ==
  /\ r.pc = "getCacheKey"
  /\ call' = Replace(r, [r EXCEPT !.pc = "cacheGet", !.cacheKey = TRUE,
                                  !.reads = @ + 1])
  /\ burst' = FALSE
  /\ UNCHANGED aside
  /\ UNCHANGED <<concurrentRequests, cacheServer, store>>

\* (a lookup that lets the error of an unparseable value out)
CacheGetDone_ThrowsOnParse(r) ==
  /\ r.pc = "cacheGet"
  /\ LET resp == processAndBuild(store, TRUE)
     IN IF store # "none"
        THEN /\ call' = Replace(r,
                  IF resp.err = "none"
                  THEN Return([r EXCEPT !.resp = resp])
                  ELSE Settle(r, resp.err))
             /\ UNCHANGED concurrentRequests
        ELSE /\ call' = Replace(r, [r EXCEPT !.pc = "BuildCommand"])
             /\ concurrentRequests' = Acquire(concurrentRequests)
  /\ burst' = FALSE
  /\ UNCHANGED aside
  /\ UNCHANGED <<cacheServer, store>>

\* cacheServer.get resolved: lines 712-731.  A value that builds is
\* returned; an absent value, or one that throws inside the try, falls
\* through to the invocation path.
CacheGetDone(r) ==
  /\ r.pc = "cacheGet"
  /\ LET resp == processAndBuild(store, TRUE)
     IN IF store # "none" /\ resp.err = "none"
        THEN /\ call' = Replace(r, Return([r EXCEPT !.resp = resp]))
             /\ UNCHANGED concurrentRequests
        ELSE /\ call' = Replace(r, [r EXCEPT !.pc = "BuildCommand"])
             /\ concurrentRequests' = Acquire(concurrentRequests)
  /\ burst' = FALSE
  /\ UNCHANGED aside
  /\ UNCHANGED <<cacheServer, store>>

\* cacheServer.get rejected (network store): line 711 is outside any try
CacheGetFail(r) ==
  /\ r.pc = "cacheGet"
  /\ cacheServer = "RedisClient"
  /\ call' = Replace(r, Settle(r, "CacheError"))
  /\ burst' = FALSE
  /\ UNCHANGED aside
  /\ UNCHANGED <<concurrentRequests, cacheServer, store>>

\* the abortPromise executor of the buffered branch, lines 825-837
AbortPromise(r) ==
  IF Aborted(r)
  THEN [Kill(r) EXCEPT !.pc = "abortExit", !.firedAt = "pre"]
  ELSE [r EXCEPT !.pc = "race", !.listener = TRUE]

\* Bun.spawn (line 736)
Spawn(r) == [r EXCEPT !.proc = "running", !.spawns = @ + 1]

\* BuildCommand resolved; Bun.spawn (lines 735-737), then the branch on
\* options.stream up to its first await (line 744 or line 841)
BuildCommandDone(r) ==
  /\ r.pc = "BuildCommand"
  /\ LET p == Spawn(r)
     IN call' = Replace(r,
          IF p.stream
          THEN [p EXCEPT !.pc = "parseReader",
                         !.firedAt = IF Aborted(p) THEN "pre" ELSE "-"]
          ELSE AbortPromise(p))
  /\ burst' = FALSE
  /\ UNCHANGED aside
  /\ UNCHANGED <<concurrentRequests, cacheServer, store>>

\* (a command that fails only once the process runs)
BuildCommandThrows_AfterSpawn(r) ==
  /\ r.pc = "BuildCommand"
  /\ MalformedProxies # {}
  /\ call' = Replace(r, Settle(Spawn(r), "BuildError"))
  /\ concurrentRequests' = Finally(concurrentRequests)
  /\ burst' = FALSE
  /\ UNCHANGED aside
  /\ UNCHANGED <<cacheServer, store>>

\* BuildCommand threw: options.proxy is one of the malformed strings and
\* formatProxyString rejected it (command.ts line 266); finally
BuildCommandThrows(r) ==
  /\ r.pc = "BuildCommand"
  /\ MalformedProxies # {}
  /\ call' = Replace(r, Settle(r, "BuildError"))
  /\ concurrentRequests' = Finally(concurrentRequests)
  /\ burst' = FALSE
  /\ UNCHANGED aside
  /\ UNCHANGED <<cacheServer, store>>

\* the external process exits, by itself or from proc.kill(); its stdout
\* reaches its end.  Once a call has settled and its process is gone
\* nothing of its abort wiring can act any more.
ProcExit(r) ==
  /\ r.proc \in {"running", "killed"}
  /\ LET p == [r EXCEPT !.proc = "exited"]
     IN call' = Replace(r, IF p.pc = "done" THEN Settle(p, p.outcome)
                           ELSE p)
  /\ burst' = FALSE
  /\ UNCHANGED aside
  /\ UNCHANGED <<concurrentRequests, cacheServer, store>>

\* stdoutPromise resolves and wins Promise.race (line 841); the
\* continuation of the await has not run yet
StdoutResolved(r) ==
  /\ r.pc = "race"
  /\ r.proc = "exited"
  /\ call' = Replace(r, [r EXCEPT !.pc = "raceWon"])
  /\ burst' = FALSE
  /\ UNCHANGED aside
  /\ UNCHANGED <<concurrentRequests, cacheServer, store>>

\* continuation of line 841: the finally of lines 846-850 removes the
\* abort listener, then line 852 awaits proc.exited
RaceContinue(r) ==
  /\ r.pc = "raceWon"
  /\ call' = Replace(r, [r EXCEPT !.pc = "procExited",
                                  !.listener = FALSE])
  /\ burst' = FALSE
  /\ UNCHANGED aside
  /\ UNCHANGED <<concurrentRequests, cacheServer, store>>

\* (a listener that rejects without killing the process)
AbortHandler_NoKill(r) ==
  IF ~r.listener THEN r
  ELSE IF r.stream THEN [Kill(r) EXCEPT !.listener = FALSE]
  ELSE [r EXCEPT !.listener = FALSE,
                 !.pc = IF r.pc = "race" THEN "abortExit" ELSE r.pc]
\* what the registered abort listener does when the signal fires:
\* buffered (lines 828-831): kill and reject abortPromise, which decides
\* the race only while it is undecided; streaming (lines 749-756): abort()
AbortHandler(r) ==
  IF ~r.listener THEN r
  ELSE IF r.stream THEN [Kill(r) EXCEPT !.listener = FALSE]
  ELSE [Kill(r) EXCEPT !.listener = FALSE,
                       !.pc = IF r.pc = "race" THEN "abortExit" ELSE r.pc]

\* the moment of the call at which a signal fires
FireTime(r) ==
  CASE r.pc \in {"getCacheKey", "cacheGet", "BuildCommand"} -> "early"
    [] r.pc = "parseReader" -> "pre"
    [] r.pc = "race" -> "race"
    [] r.pc = "done" -> "done"
    [] OTHER -> "late"

\* the caller's AbortController fires the signal of a call
AbortFire(r) ==
  /\ ~Aborted(r)
  /\ r.pc # "done" \/ r.listener
  /\ call' = Replace(r, AbortHandler([r EXCEPT !.firedAt = FireTime(r)]))
  /\ burst' = FALSE
  /\ UNCHANGED aside
  /\ UNCHANGED <<concurrentRequests, cacheServer, store>>

\* the catch of lines 842-845 after an abort: the killed process and its
\* stderr are awaited, the AbortError is rethrown, finally
AbortExitDone(r) ==
  /\ r.pc = "abortExit"
  /\ r.proc = "exited"
  /\ call' = Replace(r, Settle(r, "AbortError"))
  /\ concurrentRequests' = Finally(concurrentRequests)
  /\ burst' = FALSE
  /\ UNCHANGED aside
  /\ UNCHANGED <<cacheServer, store>>

\* the validator let the write through; lines 883-903: the TTLCache set
\* is synchronous and unconditional and is followed by the return of
\* line 906; the other stores are awaited
CacheWrite(r, raw) ==
  IF cacheServer = "TTLCache"
  THEN /\ store' = raw
       /\ call' = Replace(r, Return([r EXCEPT !.writes = @ + 1,
                                              !.valid = "true"]))
       /\ concurrentRequests' = Finally(concurrentRequests)
  ELSE /\ call' = Replace(r, [r EXCEPT !.pc = "cacheSet",
                                       !.valid = "true"])
       /\ UNCHANGED <<concurrentRequests, store>>

\* (a continuation that builds and caches without the exit code check)
ProcExitedDone_NoExitCheck(r, code, out, stderrData) ==
  /\ r.pc = "procExited"
  /\ r.proc = "exited"
  /\ LET resp == processAndBuild(out, FALSE)
         e == [r EXCEPT !.exitCode = code]
         b == [e EXCEPT !.resp = resp]
     IN IF resp.err # "none"
        THEN /\ call' = Replace(r, Settle(e, resp.err))
             /\ concurrentRequests' = Finally(concurrentRequests)
             /\ UNCHANGED store
        ELSE IF ~WriteGate(b)
        THEN /\ call' = Replace(r, Return(b))
             /\ concurrentRequests' = Finally(concurrentRequests)
             /\ UNCHANGED store
        ELSE /\ call' = Replace(r, [b EXCEPT !.pc = "validate"])
             /\ UNCHANGED <<concurrentRequests, store>>
  /\ burst' = FALSE
  /\ UNCHANGED aside
  /\ UNCHANGED cacheServer

\* proc.exited resolved (line 852) with exit code `code`, the text `out`
\* read from stdout and the text `stderrData` read from stderr: exit code check, processAndBuild, then the
\* cache-write gate and the validator call, lines 854-882
ProcExitedDone(r, code, out, stderrData) ==
  /\ r.pc = "procExited"
  /\ r.proc = "exited"
  /\ LET resp == processAndBuild(out, FALSE)
         e == [r EXCEPT !.exitCode = code]
         b == [e EXCEPT !.resp = resp]
     IN IF code # 0
        THEN /\ call' = Replace(r,
                  Settle([e EXCEPT !.message = errorMessage(stderrData)],
                         "ERR_CURL_FAILED"))
             /\ concurrentRequests' = Finally(concurrentRequests)
             /\ UNCHANGED store
        ELSE IF resp.err # "none"
        THEN /\ call' = Replace(r, Settle(e, resp.err))
             /\ concurrentRequests' = Finally(concurrentRequests)
             /\ UNCHANGED store
        ELSE IF ~WriteGate(b)
        THEN /\ call' = Replace(r, Return(b))
             /\ concurrentRequests' = Finally(concurrentRequests)
             /\ UNCHANGED store
        ELSE /\ call' = Replace(r, [b EXCEPT !.pc = "validate"])
             /\ UNCHANGED <<concurrentRequests, store>>
  /\ burst' = FALSE
  /\ UNCHANGED aside
  /\ UNCHANGED cacheServer

\* (a write that does not wait for what the validator says)
ValidateDone_WritesAnyway(r, v) ==
  /\ r.pc = "validate"
  /\ CacheWrite(r, r.resp.raw)
  /\ burst' = FALSE
  /\ UNCHANGED aside
  /\ UNCHANGED cacheServer

\* options.cache.validate(resp) resolved with v (line 877)
ValidateDone(r, v) ==
  /\ r.pc = "validate"
  /\ IF ~v
     THEN /\ call' = Replace(r, Return([r EXCEPT !.valid = "falsy"]))
          /\ concurrentRequests' = Finally(concurrentRequests)
          /\ UNCHANGED store
     ELSE CacheWrite(r, r.resp.raw)
  /\ burst' = FALSE
  /\ UNCHANGED aside
  /\ UNCHANGED cacheServer

\* the network store answered SET ... NX (lines 891-902): the value is
\* stored only when the key is absent
CacheSetDone(r) ==
  /\ r.pc = "cacheSet"
  /\ store' = IF store = "none" THEN r.resp.raw ELSE store
  /\ call' = Replace(r, Return([r EXCEPT !.writes = @ + 1]))
  /\ concurrentRequests' = Finally(concurrentRequests)
  /\ burst' = FALSE
  /\ UNCHANGED aside
  /\ UNCHANGED cacheServer

\* the network store rejected the SET: the rejection leaves Http
CacheSetFail(r) ==
  /\ r.pc = "cacheSet"
  /\ call' = Replace(r, Settle(r, "CacheError"))
  /\ concurrentRequests' = Finally(concurrentRequests)
  /\ burst' = FALSE
  /\ UNCHANGED aside
  /\ UNCHANGED <<cacheServer, store>>

\* what is left of a streaming call after its envelope was returned: the
\* subprocess, the abort wiring of lines 758-766 and the body stream
StreamReturn(r) ==
  LET e == [r EXCEPT !.resp = [err |-> "none", cached |-> FALSE,
                               raw |-> "none"]]
      s == Settle(e, "response")
  IN IF Aborted(r)
     THEN Kill(s)
     ELSE [s EXCEPT !.listener = (s.proc = "running")]

\* parseReader resolved with the head of the text `head` (line 744):
\* abort wiring, the envelope is returned (line 800), finally
ParseReaderDone(r, head) ==
  /\ r.pc = "parseReader"
  /\ findCRLFCRLF(head)
  /\ call' = Replace(r, StreamReturn(r))
  /\ concurrentRequests' = Finally(concurrentRequests)
  /\ burst' = FALSE
  /\ UNCHANGED aside
  /\ UNCHANGED <<cacheServer, store>>

\* parseReader threw 'Stream ended before headers finished' (line 592)
ParseReaderThrows(r) ==
  /\ r.pc = "parseReader"
  /\ r.proc = "exited"
  /\ call' = Replace(r, Settle(r, "StreamEnded"))
  /\ concurrentRequests' = Finally(concurrentRequests)
  /\ burst' = FALSE
  /\ UNCHANGED aside
  /\ UNCHANGED <<cacheServer, store>>

\* the consumer cancels the body stream: underlying.cancel (line 787)
StreamCancel(r) ==
  /\ r.pc = "done"
  /\ r.stream
  /\ r.outcome = "response"
  /\ r.proc = "running"
  /\ call' = Replace(r, [Kill(r) EXCEPT !.listener = FALSE])
  /\ burst' = FALSE
  /\ UNCHANGED aside
  /\ UNCHANGED <<concurrentRequests, cacheServer, store>>

\* the stored entry expires (TTLCache.get line 374, PX of the SET)
Expire ==
  /\ store # "none"
  /\ store' = "none"
  /\ burst' = FALSE
  /\ UNCHANGED aside
  /\ UNCHANGED <<concurrentRequests, cacheServer, call>>

\* the calls in progress or settled
Calls == BagToSet(call)

Next ==
  \/ \E cache \in CacheOptions, stream \in BOOLEAN, aborted \in BOOLEAN :
        HttpCall(cache, stream, aborted)
  \/ \E r \in Calls : GetCacheKeyDone(r)
  \/ \E r \in Calls : CacheGetDone(r)
  \/ \E r \in Calls : CacheGetFail(r)
  \/ \E r \in Calls : BuildCommandDone(r)
  \/ \E r \in Calls : BuildCommandThrows(r)
  \/ \E r \in Calls : ProcExit(r)
  \/ \E r \in Calls : StdoutResolved(r)
  \/ \E r \in Calls : RaceContinue(r)
  \/ \E r \in Calls : AbortFire(r)
  \/ \E r \in Calls : AbortExitDone(r)
  \/ \E r \in Calls, p \in ProcessResults :
        ProcExitedDone(r, p.exitCode, p.stdout, p.stderr)
  \/ \E r \in Calls, v \in BOOLEAN : ValidateDone(r, v)
  \/ \E r \in Calls : CacheSetDone(r)
  \/ \E r \in Calls : CacheSetFail(r)
  \/ \E r \in Calls, head \in RawTexts : ParseReaderDone(r, head)
  \/ \E r \in Calls : ParseReaderThrows(r)
  \/ \E r \in Calls : StreamCancel(r)
  \/ Expire

Spec == Init /\ [][Next]_vars


\* ---- the expiring map TTLCache and the cache write of Http ---------------
\* bounds of the examination of the expiring map
MaxSeconds == 6        \* the clock runs up to this many seconds
MaxItems == 1          \* options.maxItems, when it is set
MaxWrites == 2         \* cache writes issued in a behaviour

Keys == {"k1", "k2"}
Values == {"v1", "v2"}
\* an optional number: absent, or present with its value
Unset == <<>>
Some(n) == <<n>>
\* the moments the clock is looked at: a whole second and the millisecond
\* before it
Instants == {s * 1000 + d : s \in 0..(MaxSeconds - 1), d \in {0, 999}}

\* prepareOptions: init.cache.defaultExpiration ?? 5
defaultExpiration(d) == IF d = Unset THEN 5 ELSE d[1]

\* (an expiry that ignores the per-call value)
expireMs_DefaultOnly(expire, d) == defaultExpiration(d) * 1000
\* expireMs of the cache write: options.cache.expire when it is a number,
\* the default otherwise, in milliseconds
expireMs(expire, d) ==
  (IF expire # Unset THEN expire[1] ELSE defaultExpiration(d)) * 1000

\* Map: has, delete, set (a key that is present keeps its position)
mapHas(m, k) == \E i \in 1..Len(m) : m[i].key = k
mapGet(m, k) == m[CHOOSE i \in 1..Len(m) : m[i].key = k]
mapDelete(m, k) == SelectSeq(m, LAMBDA e : e.key # k)
mapSet(m, k, e) ==
  IF mapHas(m, k)
  THEN [i \in 1..Len(m) |-> IF m[i].key = k THEN e ELSE m[i]]
  ELSE Append(m, e)

\* TTLCache.set: with maxItems reached the last key of the map is deleted,
\* then the entry is stored whether or not the key is present
TTLCacheSet(m, maxItems, key, value, ttlMs, t) ==
  LET oldestKey == m[Len(m)].key
      kept == IF maxItems # 0 /\ Len(m) >= maxItems
              THEN mapDelete(m, oldestKey) ELSE m
  IN mapSet(kept, key,
            [key |-> key, value |-> value, expiresAt |-> t + ttlMs])

\* (a get that still answers at the moment of expiry)
TTLCacheGet_LateExpiry(m, key, t) ==
  IF ~mapHas(m, key) THEN [data |-> m, value |-> "null"]
  ELSE IF t > mapGet(m, key).expiresAt
  THEN [data |-> mapDelete(m, key), value |-> "null"]
  ELSE [data |-> m, value |-> mapGet(m, key).value]
\* TTLCache.get: null for an absent entry; an entry whose time has come
\* is deleted and null is returned; the value otherwise
TTLCacheGet(m, key, t) ==
  IF ~mapHas(m, key) THEN [data |-> m, value |-> "null"]
  ELSE IF t >= mapGet(m, key).expiresAt
  THEN [data |-> mapDelete(m, key), value |-> "null"]
  ELSE [data |-> m, value |-> mapGet(m, key).value]

\* TTLCache.cleanup: every entry whose time has come is deleted
TTLCacheCleanup(m, t) == SelectSeq(m, LAMBDA e : ~(t >= e.expiresAt))

\* what was last written for a key and is still kept by the map: when,
\* with which options.cache.expire, which value
NoWrite == [at |-> -1, expire |-> Unset, value |-> "null"]

TtlInit ==
  /\ concurrentRequests = 0 /\ cacheServer = "TTLCache" /\ store = "none"
  /\ call = EmptyBag /\ burst = TRUE
  /\ now = 0
  /\ data = <<>>
  /\ config \in [maxItems : {0, MaxItems},
                 defaultExpiration : {Unset, Some(2)}]
  /\ probe = [op |-> "none", key |-> "k1", value |-> "null", writes |-> 0,
              wrote |-> [k \in Keys |-> NoWrite]]

\* time passes; probe.op names the operation done at the present moment
Tick(t) ==
  /\ t > now
  /\ now' = t
  /\ probe' = [probe EXCEPT !.op = "none", !.key = "k1", !.value = "null"]
  /\ UNCHANGED <<data, config>>
  /\ UNCHANGED httpVars

\* the cache write of Http on a TTLCache (lines 883-889) for the key
\* `key` and the text `value`, with options.cache.expire = `expire`
HttpCacheSet(key, value, expire) ==
  /\ probe.writes < MaxWrites
  /\ LET ttlMs == expireMs(expire, config.defaultExpiration)
         next == TTLCacheSet(data, config.maxItems, key, value, ttlMs, now)
     IN /\ data' = next
        /\ probe' = [op |-> "set", key |-> key, value |-> "null",
                     writes |-> probe.writes + 1,
                     wrote |-> [k \in Keys |->
                        IF k = key
                        THEN [at |-> now, expire |-> expire, value |-> value]
                        ELSE IF mapHas(next, k) THEN probe.wrote[k]
                        ELSE NoWrite]]
  /\ UNCHANGED <<now, config>>
  /\ UNCHANGED httpVars

\* the cache lookup of Http (line 711) for the key `key`
HttpCacheGet(key) ==
  /\ LET got == TTLCacheGet(data, key, now)
     IN /\ data' = got.data
        /\ probe' = [probe EXCEPT !.op = "get", !.key = key,
                                  !.value = got.value]
  /\ UNCHANGED <<now, config>>
  /\ UNCHANGED httpVars

\* the cleanup interval of the TTLCache fires
Cleanup ==
  /\ data' = TTLCacheCleanup(data, now)
  /\ data' # data
  /\ UNCHANGED <<now, config, probe>>
  /\ UNCHANGED httpVars

TtlNext ==
  \/ \E t \in Instants : Tick(t)
  \/ \E key \in Keys, value \in Values, expire \in {Unset, Some(1)} :
        HttpCacheSet(key, value, expire)
  \/ \E key \in Keys : HttpCacheGet(key)
  \/ Cleanup

TtlSpec == TtlInit /\ [][TtlNext]_vars

\* ---- the response frame parser: processResponses and processAndBuild ----
MaxFrames == 3         \* response frames in one raw output

\* a URL, and the value of a Location header: a URL, or with host "" a
\* path to be resolved against the URL of the hop that sent it
RequestUrl == [host |-> "h", path |-> "/a"]
NoLocation == [host |-> "", path |-> ""]
Locations ==
  {[host |-> "", path |-> "/b"], [host |-> "", path |-> "/c"],
   [host |-> "g", path |-> "/d"]}

\* (a resolution against the host of the first request only)
NewURL_AgainstFirstHost(loc, cur) ==
  IF loc.host # "" THEN loc ELSE [host |-> RequestUrl.host, path |-> loc.path]
\* new URL(loc, cur).toString()
NewURL(loc, cur) ==
  IF loc.host # "" THEN loc ELSE [host |-> cur.host, path |-> loc.path]

\* what the servers on the way answered, one frame per hop reported: a
\* redirect with its Location, a 3xx without one, an interim 100, a 200
Frames ==
  [status : {301, 302}, loc : Locations] \cup
  [status : {100, 200, 302}, loc : {NoLocation}]
FrameLists == UNION {[1..n -> Frames] : n \in 1..MaxFrames}

\* The raw text the process writes for these frames, as a sequence of
\* lines: a status line <<"HTTP/", code>>, a header line
\* <<"location", value>>, the empty line <<"">> that ends the headers,
\* the body <<"body">> (written by the frame with status 200).
RawLines(f) ==
  <<<<"HTTP/", f.status>>>>
    \o (IF f.loc # NoLocation THEN <<<<"location", f.loc>>>> ELSE <<>>)
    \o <<<<"">>>>
    \o (IF f.status = 200 THEN <<<<"body">>>> ELSE <<>>)
RECURSIVE RawOutput(_)
RawOutput(frames) ==
  IF frames = <<>> THEN <<>>
  ELSE RawLines(Head(frames)) \o RawOutput(Tail(frames))

\* findHttpStarts on the lines: where a line begins with HTTP/
httpStarts(raw) == {i \in 1..Len(raw) : raw[i][1] = "HTTP/"}

\* getHeader(normalizeHeaders(headers), 'location') on the header lines
\* of one part (those before its empty line)
getLocation(part) ==
  LET ends == {i \in 1..Len(part) : part[i][1] = ""}
      hdrEnd == IF ends = {} THEN Len(part) + 1
                ELSE CHOOSE i \in ends : \A j \in ends : i <= j
      locs == {i \in 2..(hdrEnd - 1) : part[i][1] = "location"}
  IN IF locs = {} THEN NoLocation
     ELSE part[CHOOSE i \in locs : \A j \in locs : i <= j][2]

\* processResponses: one entry per status line, made of the lines up to
\* the next status line; no status line, no entry
processResponses(url, raw) ==
  LET starts == httpStarts(raw)
      partOf(i) ==
        LET later == {j \in starts : j > i}
            stop == IF later = {} THEN Len(raw) + 1
                    ELSE CHOOSE j \in later : \A k \in later : j <= k
        IN SubSeq(raw, i, stop - 1)
      entry(i) ==
        [url |-> url,
         status |-> IF partOf(i)[1][2] = 0 THEN 500 ELSE partOf(i)[1][2],
         location |-> getLocation(partOf(i))]
      RECURSIVE from(_)
      from(i) ==
        IF i > Len(raw) THEN <<>>
        ELSE IF i \in starts THEN <<entry(i)>> \o from(i + 1)
        ELSE from(i + 1)
  IN from(1)

\* the envelope buildResponse makes of one entry
ResponseWrapper(e) ==
  [err |-> "none", status |-> e.status, url |-> e.url,
   location |-> e.location, redirected |-> FALSE, redirects |-> <<>>]
isRedirect(e) ==
  e.status >= 300 /\ e.status < 400 /\ e.location # NoLocation
NoEntry ==
  [err |-> "TypeError", status |-> 0, url |-> RequestUrl,
   location |-> NoLocation, redirected |-> FALSE, redirects |-> <<>>]

\* processAndBuild, lines 240-244: of several entries the first one goes
\* when it has no Location
dropFirst(entries) ==
  IF Len(entries) > 1 /\ entries[1].location = NoLocation
  THEN Tail(entries) ELSE entries

\* the URL in `cur` after the first n of the entries were walked
RECURSIVE curAfter(_, _, _)
curAfter(url, entries, n) ==
  IF n = 0 THEN url
  ELSE LET before == curAfter(url, entries, n - 1)
       IN IF isRedirect(entries[n])
          THEN NewURL(entries[n].location, before) ELSE before

\* processAndBuild with cfg.redirectsAsUrls, lines 245-266: every entry,
\* the last one too, is walked
redirectsAsUrls(url, entries) ==
  LET hops == SelectSeq([i \in 1..Len(entries) |-> i],
                        LAMBDA i : isRedirect(entries[i]))
      urls == [j \in 1..Len(hops) |-> curAfter(url, entries, hops[j])]
  IN IF entries = <<>> THEN NoEntry
     ELSE [ResponseWrapper(entries[Len(entries)]) EXCEPT
             !.url = curAfter(url, entries, Len(entries)),
             !.redirected = (Len(urls) > 0),
             !.redirects = urls]

\* (envelopes that carry the URL their hop redirected to)
redirectsAsObjects_UrlOfTarget(url, entries) ==
  LET wrappers ==
        [i \in 1..Len(entries) |->
           [ResponseWrapper(entries[i]) EXCEPT
              !.url = curAfter(url, entries, i)]]
      lastIdx == Len(wrappers)
  IN IF entries = <<>> THEN NoEntry
     ELSE [wrappers[lastIdx] EXCEPT
             !.redirected = (lastIdx > 1),
             !.redirects = SubSeq(wrappers, 1, lastIdx - 1)]
\* processAndBuild without it, lines 267-287: wrappers[0].url = url, and
\* the wrapper after a redirect gets the resolved URL; the others keep
\* the URL of their entry
redirectsAsObjects(url, entries) ==
  LET wrappers ==
        [i \in 1..Len(entries) |->
           [ResponseWrapper(entries[i]) EXCEPT
              !.url = IF i = 1 THEN url
                      ELSE IF isRedirect(entries[i - 1])
                      THEN curAfter(url, entries, i - 1)
                      ELSE entries[i].url]]
      lastIdx == Len(wrappers)
  IN IF entries = <<>> THEN NoEntry
     ELSE [wrappers[lastIdx] EXCEPT
             !.redirected = (lastIdx > 1),
             !.redirects = SubSeq(wrappers, 1, lastIdx - 1)]

\* processAndBuild on the raw text, in either mode
processAndBuildRedirects(url, raw, asUrls) ==
  LET entries == dropFirst(processResponses(url, raw))
  IN IF asUrls THEN redirectsAsUrls(url, entries)
     ELSE redirectsAsObjects(url, entries)

\* parseReader (lines 560-640) on the lines from position i on, with
\* currentUrl = cur and the redirects collected so far: the head runs up
\* to the first empty line; a 1xx head is skipped, a 3xx head with a
\* Location is resolved, collected and skipped, any other head is returned
RECURSIVE parseReader(_, _, _, _)
parseReader(raw, i, cur, redirects) ==
  LET ends == {j \in i..Len(raw) : raw[j][1] = ""}
      hdrEnd == CHOOSE j \in ends : \A k \in ends : j <= k
      lines == SubSeq(raw, i, hdrEnd - 1)
      status == IF lines # <<>> /\ lines[1][1] = "HTTP/"
                THEN lines[1][2] ELSE 0
      locs == {j \in 2..Len(lines) : lines[j][1] = "location"}
      locationHeader ==
        IF locs = {} THEN NoLocation
        ELSE lines[CHOOSE j \in locs : \A k \in locs : j >= k][2]
      currentUrl == NewURL(locationHeader, cur)
  IN IF ends = {}
     THEN [err |-> "StreamEnded", status |-> 0, redirects |-> redirects,
           location |-> NoLocation]
     ELSE IF status >= 100 /\ status < 200
     THEN parseReader(raw, hdrEnd + 1, cur, redirects)
     ELSE IF status >= 300 /\ status < 400 /\ locationHeader # NoLocation
     THEN parseReader(raw, hdrEnd + 1, currentUrl,
                      Append(redirects, currentUrl))
     ELSE [err |-> "none", status |-> status, redirects |-> redirects,
           location |-> locationHeader]

\* the envelope of a streaming call, lines 796-811: the URL is the one of
\* the request, the redirects are those parseReader collected
streamEnvelope(url, raw) ==
  LET head == parseReader(raw, 1, url, <<>>)
  IN [err |-> head.err, status |-> head.status, url |-> url,
      location |-> head.location,
      redirected |-> (Len(head.redirects) > 0),
      redirects |-> head.redirects]

\* the parser is examined on its own: probe holds the frames the raw text
\* is made of, the mode, and the envelope once it is built
ParseInit ==
  /\ concurrentRequests = 0 /\ cacheServer = "none" /\ store = "none"
  /\ call = EmptyBag /\ burst = TRUE
  /\ now = 0 /\ data = <<>> /\ config = "none"
  /\ probe \in [frames : FrameLists, asUrls : BOOLEAN, stream : BOOLEAN,
                built : {FALSE}, result : {NoEntry}]

ProcessAndBuild ==
  /\ ~probe.built
  /\ ~probe.stream
  /\ probe' = [probe EXCEPT
       !.built = TRUE,
       !.result = processAndBuildRedirects(RequestUrl,
                     RawOutput(probe.frames), probe.asUrls)]
  /\ UNCHANGED <<now, data, config>>
  /\ UNCHANGED httpVars

\* options.stream: parseReader on stdout, then the envelope
StreamEnvelope ==
  /\ ~probe.built
  /\ probe.stream
  /\ probe' = [probe EXCEPT
       !.built = TRUE,
       !.result = streamEnvelope(RequestUrl, RawOutput(probe.frames))]
  /\ UNCHANGED <<now, data, config>>
  /\ UNCHANGED httpVars

ParseNext == ProcessAndBuild \/ StreamEnvelope
ParseSpec == ParseInit /\ [][ParseNext]_vars

\* ---- the default cache key: generateCacheKey and serializeField ----------
MaxHeaders == 2        \* entries of a header collection

\* strings that occur as header names and values, in the order
\* Array.prototype.sort puts them
Alphabet == <<"1", "2", "a", "b", "c">>
Rank(x) == CHOOSE i \in 1..Len(Alphabet) : Alphabet[i] = x
HeaderNames == {"a", "b", "c"}
HeaderValues == {"1", "2"}
\* a Headers collection: pairs <<name, value>> with distinct names, in
\* insertion order
HeaderLists ==
  {h \in UNION {[1..n -> HeaderNames \X HeaderValues] : n \in 0..MaxHeaders} :
     \A i, j \in 1..Len(h) : i # j => h[i][1] # h[j][1]}

\* the request descriptor as generateCacheKey sees it; timeout stands for
\* the fields that are never selected, keys for options.cache.keys
\* (<<>> when it is not given)
CacheKeyFields == <<"url", "headers", "body", "proxy", "method">>
FieldValues ==
  [url |-> {"u1", "u2"}, headers |-> HeaderLists, body |-> {"x", "y"},
   proxy |-> {"undefined", "p"}, method |-> {"GET", "POST"},
   timeout |-> {"10", "20"},
   keys |-> {<<>>, <<"url", "method">>}]

\* Array.prototype.sort on strings
RECURSIVE insertSorted(_, _)
insertSorted(x, s) ==
  IF s = <<>> THEN <<x>>
  ELSE IF Rank(x) <= Rank(Head(s)) THEN <<x>> \o s
  ELSE <<Head(s)>> \o insertSorted(x, Tail(s))
RECURSIVE sort(_)
sort(s) == IF s = <<>> THEN <<>> ELSE insertSorted(Head(s), sort(Tail(s)))

\* for (const [h, v] of val.entries()) acc.push(h, v)
RECURSIVE flatten(_)
flatten(h) ==
  IF h = <<>> THEN <<>> ELSE <<h[1][1], h[1][2]>> \o flatten(Tail(h))

\* serializeField: a header collection becomes the JSON text of its
\* names and values, flattened and sorted; any other value its string
serializeField(key, options) ==
  IF key = "headers"
  THEN <<"[">> \o sort(flatten(options.headers)) \o <<"]">>
  ELSE <<options[key]>>

\* md5, taken as free of collisions
md5(str) == <<"md5", str>>

RECURSIVE join(_)
join(parts) ==
  IF parts = <<>> THEN <<>>
  ELSE IF Len(parts) = 1 THEN parts[1]
  ELSE parts[1] \o <<"|">> \o join(Tail(parts))

\* generateCacheKey: md5 of `BunCurl2|` and the selected fields joined
\* with `|`
generateCacheKey(options) ==
  LET keys == IF options.keys = <<>> THEN CacheKeyFields ELSE options.keys
      serialized == [i \in 1..Len(keys) |-> serializeField(keys[i], options)]
  IN md5(<<"BunCurl2|">> \o join(serialized))

\* the key is examined on its own: probe holds a descriptor, a second one
\* that differs from it in at most one field, and the keys derived
NoKey == <<>>
KeyInit ==
  /\ concurrentRequests = 0 /\ cacheServer = "none" /\ store = "none"
  /\ call = EmptyBag /\ burst = TRUE
  /\ now = 0 /\ data = <<>> /\ config = "none"
  /\ \E first \in [url : {"u1"}, headers : HeaderLists, body : {"x"},
                   proxy : {"undefined"}, method : {"GET"},
                   timeout : {"10"}, keys : FieldValues.keys] :
       \E f \in DOMAIN FieldValues \ {"keys"} :
         \E v \in FieldValues[f] :
           probe = [first |-> first, second |-> [first EXCEPT ![f] = v],
                    key1 |-> NoKey, key2 |-> NoKey, again |-> NoKey]

\* getCacheKey for the two descriptors (line 710)
GetCacheKey ==
  /\ probe.key1 = NoKey
  /\ probe' = [probe EXCEPT !.key1 = generateCacheKey(probe.first),
                            !.key2 = generateCacheKey(probe.second)]
  /\ UNCHANGED <<now, data, config>>
  /\ UNCHANGED httpVars

\* getCacheKey once more for the first descriptor, which was not mutated
GetCacheKeyAgain ==
  /\ probe.key1 # NoKey
  /\ probe.again = NoKey
  /\ probe' = [probe EXCEPT !.again = generateCacheKey(probe.first)]
  /\ UNCHANGED <<now, data, config>>
  /\ UNCHANGED httpVars

KeyNext == GetCacheKey \/ GetCacheKeyAgain
KeySpec == KeyInit /\ [][KeyNext]_vars

\* ---- the command builder: BuildCommand and what it calls -----------------
\* Texts are sequences of tokens; an argument of the command is a text.

\* JSON.parse on a text, as far as hasJsonStructure needs it: the text
\* parses to an object (members "k" : 1) or to an array (elements 1)
RECURSIVE jsonMembers(_)
jsonMembers(s) ==
  \/ s = <<>>
  \/ s = <<"k", ":", "1">>
  \/ /\ Len(s) > 4
     /\ SubSeq(s, 1, 4) = <<"k", ":", "1", ",">>
     /\ Len(s) - 4 >= 3
     /\ jsonMembers(SubSeq(s, 5, Len(s)))
RECURSIVE jsonElements(_)
jsonElements(s) ==
  \/ s = <<>>
  \/ s = <<"1">>
  \/ /\ Len(s) > 2
     /\ SubSeq(s, 1, 2) = <<"1", ",">>
     /\ jsonElements(SubSeq(s, 3, Len(s)))
\* hasJsonStructure on a string (utils.ts lines 131-158)
hasJsonStructure(i) ==
  LET str == trim(i)
      firstChar == str[1]
      lastChar == str[Len(str)]
      inner == SubSeq(str, 2, Len(str) - 1)
  IN IF str = <<>> THEN FALSE
     ELSE IF (firstChar # "{" \/ lastChar # "}")
             /\ (firstChar # "[" \/ lastChar # "]") THEN FALSE
     ELSE IF Len(str) < 2 THEN FALSE
     ELSE IF firstChar = "{" THEN jsonMembers(inner)
     ELSE jsonElements(inner)

\* determineContentType (utils.ts lines 166-181)
determineContentType(body) ==
  LET pairs == split(body, "&")
  IN IF hasJsonStructure(body) THEN <<"application/json">>
     ELSE IF \A i \in 1..Len(body) : body[i] # "=" THEN <<"text/plain">>
     ELSE IF \E i \in 1..Len(pairs) :
                \A j \in 1..Len(pairs[i]) : pairs[i][j] # "="
     THEN <<"text/plain">>
     ELSE <<"application/x-www-form-urlencoded">>

\* the bodies a request is made with: none, strings, a plain object, an
\* array, a URLSearchParams, a Blob
NoBody == [kind |-> "undefined", text |-> <<>>]
BodyStrings ==
  {<<"{", "k", ":", "1", "}">>, <<" ", "[", "1", ",", "1", "]">>,
   <<"{", "k", "}">>, <<"a", "=", "1", "&", "b", "=", "2">>,
   <<"a", "=", "1", "&", "b">>, <<"h", "i">>, <<"a", "=">>, <<>>}
Bodies ==
  {NoBody} \cup [kind : {"string"}, text : BodyStrings] \cup
  {[kind |-> "object", text |-> <<"{", "k", ":", "1", "}">>],
   [kind |-> "array", text |-> <<"[", "1", "]">>],
   [kind |-> "URLSearchParams", text |-> <<"a", "=", "1">>],
   [kind |-> "Blob", text |-> <<"bytes">>]}
NoType == <<>>

\* prepareRequestBody (lines 64-105): the text handed to the process and
\* the content type inferred
prepareRequestBody(body) ==
  IF body.kind = "string"
  THEN [body |-> body.text, type |-> determineContentType(body.text)]
  ELSE IF body.kind = "URLSearchParams"
  THEN [body |-> body.text, type |-> <<"application/x-www-form-urlencoded">>]
  ELSE IF body.kind = "Blob"
  THEN [body |-> body.text, type |-> NoType]
  ELSE [body |-> body.text, type |-> <<"application/json">>]

\* String.prototype.toLowerCase on the header names in use
toLowerCase(k) ==
  IF k \in {"Content-Type", "CONTENT-TYPE", "content-type"}
  THEN "content-type"
  ELSE IF k \in {"User-Agent", "user-agent"} THEN "user-agent"
  ELSE k
\* String.prototype.toUpperCase on the methods in use
toUpperCase(m) ==
  IF m = "head" THEN "HEAD" ELSE IF m = "post" THEN "POST" ELSE m

\* the header lists a request is made with, as prepareHeaders returns
\* them for an array of pairs and sortHeaders: false (lines 107-126)
HeaderPairs ==
  {<<"Content-Type", "t">>, <<"CONTENT-TYPE", "t">>, <<"content-type", "t">>,
   <<"User-Agent", "u">>, <<"user-agent", "v">>, <<"x-a", "1">>}
OrderedHeaders ==
  {<<>>} \cup {<<p>> : p \in HeaderPairs} \cup
  {<<<<"x-a", "1">>, <<"User-Agent", "u">>, <<"user-agent", "v">>>>,
   <<<<"User-Agent", "u">>, <<"CONTENT-TYPE", "t">>, <<"x-a", "1">>>>}

\* the URLs requested, and urlStr.replace(/\[|\]/g, ...) (line 326)
Urls == {<<"http://h/a">>, <<"http://h/a?q", "[", "0", "]", "=", "[", "]">>}
\* (a replace without the g flag: the first bracket only)
encodeBrackets_FirstOnly(urlStr) ==
  LET at == {i \in 1..Len(urlStr) : urlStr[i] \in {"[", "]"}}
  IN [i \in 1..Len(urlStr) |->
        IF i \in at /\ \A j \in at : i <= j
        THEN (IF urlStr[i] = "[" THEN "%5B" ELSE "%5D")
        ELSE urlStr[i]]
encodeBrackets(urlStr) ==
  [i \in 1..Len(urlStr) |->
     IF urlStr[i] = "[" THEN "%5B"
     ELSE IF urlStr[i] = "]" THEN "%5D" ELSE urlStr[i]]

\* request options and global init as BuildCommand reads them; "" and
\* <<>> stand for a value that is not given, follow and keepAlive are
\* booleans or numbers written as text
Numbers == {"3", "30"}
BuildOptions ==
  [method : {"GET", "HEAD"}, version : {"", "1.1", "2.0", "3.0"},
   proxy : {NoProxy, <<"h", ":", "8080">>, <<"h", ":", "x">>},
   tls : {"none", "insecure"}, dns : {"none", "servers"},
   compress : BOOLEAN, follow : {"undefined", "false", "true", "3"},
   keepAlive : {"true", "false", "30"}, keepAliveProbes : {"3"},
   body : {NoBody}, headers : {<<>>}, url : {<<"http://h/a">>},
   HTTP2 : BOOLEAN, fastOpen : BOOLEAN]
  \cup
  [method : {"GET", "head", "post"}, version : {"1.1"}, proxy : Proxies,
   tls : {"none"}, dns : {"none"}, compress : {TRUE},
   follow : {"undefined"}, keepAlive : {"true"},
   keepAliveProbes : {"", "3"}, body : Bodies, headers : OrderedHeaders,
   url : Urls, HTTP2 : {TRUE}, fastOpen : {TRUE}]
  \cup
  [method : {"GET", "HEAD", "post"}, version : {"", "1.1"},
   proxy : {<<"u", ":", "p", "@", "h", ":", "8080">>},
   tls : {"insecure"}, dns : {"servers"}, compress : {TRUE},
   follow : {"false", "3"}, keepAlive : {"false", "30"},
   keepAliveProbes : {"3"},
   body : {[kind |-> "object", text |-> <<"{", "k", ":", "1", "}">>],
           [kind |-> "Blob", text |-> <<"bytes">>]},
   headers : {<<<<"x-a", "1">>, <<"User-Agent", "u">>, <<"user-agent", "v">>>>},
   url : Urls, HTTP2 : {TRUE}, fastOpen : {TRUE}]

\* CURL.HTTP_VERSION[version] (constants.ts)
HTTP_VERSION(version) ==
  IF version = "3.0" THEN <<"--http3">>
  ELSE IF version = "2.0" THEN <<"--http2">> ELSE <<"--http1.1">>

\* const version = options.http?.version ?? (SUPPORTS.HTTP2 ? 2.0 : 1.1)
resolveVersion(options) ==
  IF options.version # "" THEN options.version
  ELSE IF options.HTTP2 THEN "2.0" ELSE "1.1"

\* buildTLSOptions (lines 128-172) for tls: {insecure: true} and no tls
buildTLSOptions(options) ==
  IF options.tls = "none" THEN <<>>
  ELSE <<<<"--insecure">>, <<"--tlsv1.2">>, <<"--tls-max">>, <<"1.3">>>>

\* buildDNSOptions (lines 174-217) for dns: {servers, cache: false} and
\* no dns
buildDNSOptions(options) ==
  IF options.dns = "none" THEN <<>>
  ELSE <<<<"--dns-servers">>, <<"1.1.1.1,1.0.0.1">>>>

\* the keep-alive flags of lines 277-286
keepAliveFlags(options) ==
  (IF options.keepAlive = "false" THEN <<<<"--no-keepalive">>>>
   ELSE IF options.keepAlive \in Numbers
   THEN <<<<"--keepalive-time">>, <<options.keepAlive>>>>
   ELSE <<>>)
  \o (IF options.keepAliveProbes \in Numbers
      THEN <<<<"--keepalive-cnt">>, <<options.keepAliveProbes>>>>
      ELSE <<>>)

\* the header loop of lines 299-318: one -H per header that is not a
\* user-agent, the user-agent flag, the synthesized content-type
RECURSIVE headerFlags(_)
headerFlags(ordered) ==
  IF ordered = <<>> THEN <<>>
  ELSE LET k == ordered[1][1]
           v == ordered[1][2]
       IN (IF toLowerCase(k) = "user-agent" THEN <<>>
           ELSE <<<<"-H">>, <<k, ": ", v>>>>)
          \o headerFlags(Tail(ordered))
userAgent(ordered) ==
  LET uas == {i \in 1..Len(ordered) : toLowerCase(ordered[i][1]) = "user-agent"}
  IN IF uas = {} THEN <<"Bun/", "version">>
     ELSE <<ordered[CHOOSE i \in uas : \A j \in uas : i >= j][2]>>
\* (a comparison of the name as it was written)
hasCt_CaseSensitive(ordered) ==
  \E i \in 1..Len(ordered) : ordered[i][1] = "content-type"
hasCt(ordered) ==
  \E i \in 1..Len(ordered) : toLowerCase(ordered[i][1]) = "content-type"

\* BuildCommand (lines 219-329): the argument vector, or the error
\* formatProxyString throws
BuildCommand(options) ==
  LET method == toUpperCase(options.method)
      version == resolveVersion(options)
      proxyUrl == formatProxyString(options.proxy)
      followVal == IF options.follow = "undefined" THEN "true"
                   ELSE options.follow
      hasBody == options.body.kind # "undefined"
      prepared == prepareRequestBody(options.body)
      cmd ==
        <<<<"curl">>, <<"-i">>, <<"-s">>, <<"-S">>,
          <<"-m">>, <<"10">>, <<"--connect-timeout">>, <<"5">>,
          HTTP_VERSION(version)>>
        \o buildTLSOptions(options)
        \o buildDNSOptions(options)
        \o (IF options.compress /\ method # "HEAD"
            THEN <<<<"--compressed">>>> ELSE <<>>)
        \o (IF options.fastOpen THEN <<<<"--tcp-fastopen">>>> ELSE <<>>)
        \o <<<<"--tcp-nodelay">>>>
        \o (IF options.proxy # NoProxy
            THEN <<<<"--proxy">>, proxyUrl>> ELSE <<>>)
        \o (IF followVal # "false"
            THEN <<<<"--location">>, <<"--max-redirs">>,
                   <<IF followVal \in Numbers THEN followVal ELSE "10">>>>
            ELSE <<>>)
        \o (IF version = "1.1" THEN keepAliveFlags(options) ELSE <<>>)
        \o (IF hasBody THEN <<<<"--data-raw">>, prepared.body>> ELSE <<>>)
        \o headerFlags(options.headers)
        \o <<<<"-A">>, userAgent(options.headers)>>
        \o (IF hasBody /\ prepared.type # NoType /\ ~hasCt(options.headers)
            THEN <<<<"-H">>, <<"content-type", ": ">> \o prepared.type>>
            ELSE <<>>)
        \o (IF method = "HEAD" THEN <<<<"-I">>>>
            ELSE <<<<"-X">>, <<method>>>>)
        \o <<encodeBrackets(options.url)>>
  IN IF options.proxy # NoProxy /\ proxyUrl = ProxyError
     THEN [err |-> "Error", cmd |-> <<>>]
     ELSE [err |-> "none", cmd |-> cmd]

\* the builder is examined on its own: probe holds the options and the
\* command once it is built
NoCommand == [err |-> "none", cmd |-> <<>>]
CmdInit ==
  /\ concurrentRequests = 0 /\ cacheServer = "none" /\ store = "none"
  /\ call = EmptyBag /\ burst = TRUE
  /\ now = 0 /\ data = <<>> /\ config = "none"
  /\ probe \in [options : BuildOptions, built : {FALSE}, result : {NoCommand}]

Build ==
  /\ ~probe.built
  /\ probe' = [probe EXCEPT !.built = TRUE,
                            !.result = BuildCommand(probe.options)]
  /\ UNCHANGED <<now, data, config>>
  /\ UNCHANGED httpVars

CmdNext == Build
CmdSpec == CmdInit /\ [][CmdNext]_vars

\* ---- the parsers on the text of stdout -----------------------------------
\* The text is a sequence of characters; a word that is never cut by the
\* code ("HTTP/", a status code, a header name) is one character here.
\* Positions are those of the code: the first character is at 0.
CR == "CR"
LF == "LF"
WhiteSpace == {" ", CR, LF}

\* String.prototype.substring(a, b) and indexOf(pattern, from); -1 is
\* "not found"
substring(s, a, b) == SubSeq(s, a + 1, b)
indexOf(s, pat, from) ==
  LET hits == {i \in from..(Len(s) - Len(pat)) :
                 SubSeq(s, i + 1, i + Len(pat)) = pat}
  IN IF hits = {} THEN -1 ELSE CHOOSE i \in hits : \A j \in hits : i <= j

\* String.prototype.trim and trimStart on these characters
RECURSIVE trimStartWs(_)
trimStartWs(t) ==
  IF t # <<>> /\ Head(t) \in WhiteSpace THEN trimStartWs(Tail(t)) ELSE t
RECURSIVE trimEndWs(_)
trimEndWs(t) ==
  IF t # <<>> /\ t[Len(t)] \in WhiteSpace
  THEN trimEndWs(SubSeq(t, 1, Len(t) - 1)) ELSE t
trimWs(t) == trimEndWs(trimStartWs(t))

\* parseInt(text, 10): white space is skipped, then the digits at the
\* head are read; NaN when there are none
NaN == -1
parseInt(text) ==
  LET t == trimStartWs(text)
  IN IF t = <<>> THEN NaN
     ELSE IF t[1] = "100" THEN 100
     ELSE IF t[1] = "200" THEN 200
     ELSE IF t[1] = "302" THEN 302
     ELSE IF t[1] = "20" THEN 20
     ELSE IF t[1] = "2000" THEN 2000
     ELSE NaN
\* parseInt(...) || fallback
orElse(n, fallback) == IF n = NaN \/ n = 0 THEN fallback ELSE n

\* findHttpStarts (part_010 lines 40-62): HTTP/ at the start of the text,
\* after a line feed, or after a carriage return that follows a line feed,
\* with something after it
findHttpStartsIn(raw) ==
  {i \in 0..(Len(raw) - 2) :
     /\ raw[i + 1] = "HTTP/"
     /\ \/ i = 0
        \/ raw[i] = LF
        \/ i > 1 /\ raw[i] = CR /\ raw[i - 1] = LF}

\* the header loop of processResponses, lines 147-159, from cursor on
RECURSIVE headerPairs(_, _, _)
headerPairs(part, cursor, hdrEnd) ==
  LET nextEnd == indexOf(part, <<CR, LF>>, cursor)
      endPos == IF nextEnd > -1 /\ nextEnd <= hdrEnd THEN nextEnd ELSE hdrEnd
      colon == indexOf(part, <<":">>, cursor)
  IN IF cursor >= hdrEnd THEN <<>>
     ELSE (IF colon > cursor /\ colon < endPos
           THEN <<<<substring(part, cursor, colon),
                    trimStartWs(substring(part, colon + 1, endPos))>>>>
           ELSE <<>>)
          \o headerPairs(part, endPos + 2, hdrEnd)

\* one pass of the loop of processResponses, lines 134-170, on one part
parsePart(part) ==
  LET rnrn == indexOf(part, <<CR, LF, CR, LF>>, 0)
      nn == indexOf(part, <<LF, LF>>, 0)
      hdrEnd == IF rnrn > -1 THEN rnrn ELSE IF nn > -1 THEN nn ELSE Len(part)
      sepLen == IF rnrn > -1 THEN 4 ELSE IF nn > -1 THEN 2 ELSE 0
      statusLineEnd == indexOf(part, <<CR, LF>>, 0)
      statusLine == IF statusLineEnd > -1
                    THEN substring(part, 0, statusLineEnd)
                    ELSE substring(part, 0, hdrEnd)
      words == split(statusLine, " ")
      code == IF Len(words) > 1 THEN words[2] ELSE <<>>
      cursor == IF statusLineEnd > -1 THEN statusLineEnd + 2
                ELSE Len(statusLine)
  IN [status |-> orElse(parseInt(code), 500),
      headers |-> headerPairs(part, cursor, hdrEnd),
      body |-> IF sepLen > 0
               THEN trimWs(substring(part, hdrEnd + sepLen, Len(part)))
               ELSE <<>>]

\* processResponses on the text: one entry per start found
processResponsesIn(raw) ==
  LET starts == findHttpStartsIn(raw)
      stopOf(i) ==
        LET later == {j \in starts : j > i}
        IN IF later = {} THEN Len(raw)
           ELSE CHOOSE j \in later : \A k \in later : j <= k
      RECURSIVE from(_)
      from(i) ==
        IF i >= Len(raw) THEN <<>>
        ELSE IF i \in starts
        THEN <<parsePart(substring(raw, i, stopOf(i)))>> \o from(i + 1)
        ELSE from(i + 1)
  IN from(0)

\* getHeader(headers, 'location') (part_010 lines 21-27); <<>> is null
lowerName(k) == IF k = <<"Location">> THEN <<"location">> ELSE k
getHeaderLocation(headers) ==
  LET at == {i \in 1..Len(headers) : lowerName(headers[i][1]) = <<"location">>}
  IN IF at = {} THEN <<>>
     ELSE headers[CHOOSE i \in at : \A j \in at : i <= j][2]

\* processAndBuild on the text (part_010 lines 231-288): the first of
\* several entries goes when it has no Location; the envelope is built of
\* the last entry
NoEnvelope == [err |-> "TypeError", status |-> 0, headers |-> <<>>,
               body |-> <<>>, entries |-> 0]
processAndBuildIn(raw) ==
  LET all == processResponsesIn(raw)
      entries == IF Len(all) > 1 /\ getHeaderLocation(all[1].headers) = <<>>
                 THEN Tail(all) ELSE all
      last == entries[Len(entries)]
  IN IF entries = <<>> THEN NoEnvelope
     ELSE [err |-> "none", status |-> last.status, headers |-> last.headers,
           body |-> last.body, entries |-> Len(all)]

\* findCRLFCRLF(buf, len, start) (http.ts lines 548-559)
findCRLFCRLFIn(buf, start) ==
  LET hits == {i \in start..(Len(buf) - 4) :
                 SubSeq(buf, i + 1, i + 4) = <<CR, LF, CR, LF>>}
  IN IF hits = {} THEN -1 ELSE CHOOSE i \in hits : \A j \in hits : i <= j

\* headerText.split('\r\n')
RECURSIVE splitLines(_)
splitLines(text) ==
  LET at == indexOf(text, <<CR, LF>>, 0)
  IN IF at = -1 THEN <<text>>
     ELSE <<substring(text, 0, at)>>
            \o splitLines(substring(text, at + 2, Len(text)))

\* the header loop of parseReader, lines 612-623
RECURSIVE readerPairs(_)
readerPairs(lines) ==
  LET line == Head(lines)
      idx == indexOf(line, <<":">>, 0)
  IN IF lines = <<>> THEN <<>>
     ELSE (IF idx = -1 THEN <<>>
           ELSE <<<<trimWs(substring(line, 0, idx)),
                    trimWs(substring(line, idx + 1, Len(line)))>>>>)
          \o readerPairs(Tail(lines))
\* locationHeader: the value of the last line whose raw key is location
readerLocation(lines) ==
  LET at == {i \in 1..Len(lines) :
               LET idx == indexOf(lines[i], <<":">>, 0)
               IN idx # -1 /\ lowerName(substring(lines[i], 0, idx))
                                = <<"location">>}
      i == CHOOSE k \in at : \A j \in at : k >= j
      idx == indexOf(lines[i], <<":">>, 0)
  IN IF at = {} THEN <<>>
     ELSE trimWs(substring(lines[i], idx + 1, Len(lines[i])))

\* new URL(location, currentUrl).toString() on the texts of the URLs in
\* use: a path is resolved against the host of currentUrl
resolveUrl(location, currentUrl) ==
  IF location[1] = "/" THEN <<currentUrl[1]>> \o location ELSE location

\* parseReader (lines 560-640) with the chunks still to be read, the
\* buffer, scanFrom, currentUrl and the redirects collected
RECURSIVE parseReaderIn(_, _, _, _, _)
parseReaderIn(chunks, buf, scanFrom, currentUrl, redirects) ==
  LET hdrEnd == findCRLFCRLFIn(buf, scanFrom)
      maxOf(a, b) == IF a > b THEN a ELSE b
      leftover == substring(buf, hdrEnd + 4, Len(buf))
      lines == splitLines(substring(buf, 0, hdrEnd))
      words == split(Head(lines), " ")
      code == IF Len(words) > 1 THEN words[2] ELSE <<>>
      status == orElse(parseInt(code), 0)
      locationHeader == readerLocation(Tail(lines))
      nextUrl == resolveUrl(locationHeader, currentUrl)
  IN IF hdrEnd = -1
     THEN IF chunks = <<>>
          THEN [err |-> "StreamEnded", status |-> 0, headers |-> <<>>,
                leftover |-> <<>>, redirects |-> redirects, rest |-> <<>>]
          ELSE parseReaderIn(Tail(chunks), buf \o Head(chunks),
                             maxOf(0, Len(buf) - 3), currentUrl, redirects)
     ELSE IF status >= 100 /\ status < 200
     THEN parseReaderIn(chunks, leftover, 0, currentUrl, redirects)
     ELSE IF status >= 300 /\ status < 400 /\ locationHeader # <<>>
     THEN parseReaderIn(chunks, leftover, 0, nextUrl,
                        Append(redirects, nextUrl))
     ELSE [err |-> "none", status |-> status,
           headers |-> readerPairs(Tail(lines)), leftover |-> leftover,
           redirects |-> redirects, rest |-> chunks]

\* ---- what the process writes ---------------------------------------------
MaxChunks == 3         \* chunks the text of stdout is read in

\* a response frame: the code of its status line, its header lines and its
\* body
Frame100 == [code |-> <<"100">>, headers |-> <<>>, body |-> <<>>]
Frame302 ==
  [code |-> <<"302">>, headers |-> <<<<"Location", <<"/", "b">>>>>>,
   body |-> <<>>]
Frame302Abs ==
  [code |-> <<"302">>, headers |-> <<<<"location", <<"//g", "/", "d">>>>>>,
   body |-> <<>>]
Frame200 ==
  [code |-> <<"200">>, headers |-> <<<<"X", <<"v">>>>>>, body |-> <<"x", "y">>]
\* a body with a line that begins with HTTP/, a body with white space
\* around it, status lines with a malformed code and without a code
Frame200Http ==
  [code |-> <<"200">>, headers |-> <<<<"X", <<"v">>>>>>,
   body |-> <<"x", LF, "HTTP/", "z">>]
Frame200Space ==
  [code |-> <<"200">>, headers |-> <<>>, body |-> <<" ", "x", LF>>]
FrameShort == [code |-> <<"20">>, headers |-> <<>>, body |-> <<"x">>]
FrameLong == [code |-> <<"2000">>, headers |-> <<>>, body |-> <<"x">>]
FrameWord == [code |-> <<"abc">>, headers |-> <<>>, body |-> <<"x">>]
FrameNoCode == [code |-> <<>>, headers |-> <<>>, body |-> <<"x">>]
TextFrames ==
  {Frame100, Frame302, Frame302Abs, Frame200, Frame200Http, Frame200Space,
   FrameShort, FrameLong, FrameWord, FrameNoCode}
\* the outputs parsed as a whole, and those read as a stream
BufferedOutputs == {<<f>> : f \in TextFrames} \cup
                   {<<f, g>> : f \in {Frame100, Frame302, Frame200},
                               g \in TextFrames}
StreamedOutputs ==
  {<<Frame200>>, <<Frame100, Frame200>>, <<Frame302, Frame200>>,
   <<Frame302Abs, Frame302, Frame200Http>>, <<Frame100, Frame302, Frame200>>,
   <<Frame302>>, <<FrameWord>>, <<FrameNoCode>>}
LineEndings == {<<CR, LF>>, <<LF>>}

\* the text of a frame with the line ending eol, and of a list of frames
RECURSIVE HeaderText(_, _)
HeaderText(headers, eol) ==
  IF headers = <<>> THEN <<>>
  ELSE <<headers[1][1]>> \o <<":", " ">> \o headers[1][2] \o eol
         \o HeaderText(Tail(headers), eol)
FrameText(f, eol) ==
  <<"HTTP/", "2">> \o (IF f.code = <<>> THEN <<>> ELSE <<" ">> \o f.code)
    \o eol \o HeaderText(f.headers, eol) \o eol \o f.body
RECURSIVE OutputText(_, _)
OutputText(frames, eol) ==
  IF frames = <<>> THEN <<>>
  ELSE FrameText(Head(frames), eol) \o OutputText(Tail(frames), eol)

\* the ways a text of n characters is cut into at most k + 1 chunks, as
\* sets of the positions after which it is cut, and the chunks of a cut
RECURSIVE CutSets(_, _)
CutSets(n, k) ==
  IF k = 0 THEN {{}}
  ELSE LET fewer == CutSets(n, k - 1)
       IN fewer \cup {c \cup {i} : c \in fewer, i \in 1..(n - 1)}
RECURSIVE ChunksOf(_, _, _)
ChunksOf(text, cuts, from) ==
  LET later == {c \in cuts : c > from}
      next == CHOOSE c \in later : \A d \in later : c <= d
  IN IF later = {} THEN <<SubSeq(text, from + 1, Len(text))>>
     ELSE <<SubSeq(text, from + 1, next)>> \o ChunksOf(text, cuts, next)

StreamUrl == <<"//h", "/", "a">>

\* the parsers are examined on their own: probe holds the frames written,
\* the line ending, the chunks, and what the parser made of them
TextInit ==
  /\ concurrentRequests = 0 /\ cacheServer = "none" /\ store = "none"
  /\ call = EmptyBag /\ burst = TRUE
  /\ now = 0 /\ data = <<>> /\ config = "none"
  /\ \/ \E frames \in BufferedOutputs, eol \in LineEndings :
          probe = [stream |-> FALSE, frames |-> frames, eol |-> eol,
                   chunks |-> <<OutputText(frames, eol)>>, stage |-> "raw",
                   result |-> NoEnvelope, redirects |-> <<>>,
                   leftover |-> <<>>, rest |-> <<>>, delivered |-> <<>>]
     \/ \E frames \in StreamedOutputs :
          \E cuts \in CutSets(Len(OutputText(frames, <<CR, LF>>)),
                              MaxChunks - 1) :
            probe = [stream |-> TRUE, frames |-> frames, eol |-> <<CR, LF>>,
                     chunks |-> ChunksOf(OutputText(frames, <<CR, LF>>),
                                         cuts, 0),
                     stage |-> "raw",
                     result |-> NoEnvelope, redirects |-> <<>>,
                     leftover |-> <<>>, rest |-> <<>>, delivered |-> <<>>]

\* the buffered call builds its envelope of the whole text
ProcessAndBuildText ==
  /\ ~probe.stream /\ probe.stage = "raw"
  /\ probe' = [probe EXCEPT !.stage = "built",
                            !.result = processAndBuildIn(probe.chunks[1])]
  /\ UNCHANGED <<now, data, config>>
  /\ UNCHANGED httpVars

\* the streaming call awaits parseReader (line 744)
ParseReaderText ==
  /\ probe.stream /\ probe.stage = "raw"
  /\ LET head == parseReaderIn(probe.chunks, <<>>, 0, StreamUrl, <<>>)
     IN probe' = [probe EXCEPT
          !.stage = IF head.err = "none" THEN "head" ELSE "failed",
          !.result = [err |-> head.err, status |-> head.status,
                      headers |-> head.headers, body |-> <<>>,
                      entries |-> 0],
          !.redirects = head.redirects,
          !.leftover = head.leftover, !.rest = head.rest]
  /\ UNCHANGED <<now, data, config>>
  /\ UNCHANGED httpVars

\* (a pull that forgets what was read past the head)
Pull_SkipsLeftover ==
  /\ probe.stream /\ probe.stage = "head"
  /\ probe' =
       IF probe.rest = <<>>
       THEN [probe EXCEPT !.stage = "closed"]
       ELSE [probe EXCEPT !.delivered = @ \o Head(probe.rest),
                          !.rest = Tail(probe.rest)]
  /\ UNCHANGED <<now, data, config>>
  /\ UNCHANGED httpVars

\* underlying.pull (lines 769-786): the leftover first, then one read
Pull ==
  /\ probe.stream /\ probe.stage = "head"
  /\ probe' =
       IF probe.leftover # <<>>
       THEN [probe EXCEPT !.delivered = @ \o probe.leftover,
                          !.leftover = <<>>]
       ELSE IF probe.rest = <<>>
       THEN [probe EXCEPT !.stage = "closed"]
       ELSE [probe EXCEPT !.delivered = @ \o Head(probe.rest),
                          !.rest = Tail(probe.rest)]
  /\ UNCHANGED <<now, data, config>>
  /\ UNCHANGED httpVars

TextNext == ProcessAndBuildText \/ ParseReaderText \/ Pull
TextSpec == TextInit /\ [][TextNext]_vars

\* ---- the header cache of the command builder (command.ts) ----
\* prioritizedOrder.get(lower) for the names in use (types.ts lines
\* 1108-1146); -1 stands for undefined
prioritizedOrder(lower) ==
  IF lower = "content-type" THEN 10
  ELSE IF lower = "user-agent" THEN 34 ELSE -1
\* a[1].localeCompare(b[1]) on the lower-case names in use
localeCompare(a, b) ==
  LET order == <<"b", "content-type", "user-agent", "x-a">>
      at(x) == CHOOSE i \in 1..Len(order) : order[i] = x
  IN at(a) - at(b)
\* the comparator of sortHeaders (lines 1172-1185)
compareHeaders(a, b) ==
  LET indexA == prioritizedOrder(toLowerCase(a[1]))
      indexB == prioritizedOrder(toLowerCase(b[1]))
  IN IF indexA # -1 /\ indexB # -1 THEN indexA - indexB
     ELSE IF indexA # -1 THEN -1
     ELSE IF indexB # -1 THEN 1
     ELSE localeCompare(toLowerCase(a[1]), toLowerCase(b[1]))
\* Array.prototype.sort with that comparator (a stable sort)
RECURSIVE insertHeader(_, _)
insertHeader(x, s) ==
  IF s = <<>> THEN <<x>>
  ELSE IF compareHeaders(x, Head(s)) <= 0 THEN <<x>> \o s
  ELSE <<Head(s)>> \o insertHeader(x, Tail(s))
RECURSIVE sortHeaders(_)
sortHeaders(inputHeaders) ==
  IF inputHeaders = <<>> THEN <<>>
  ELSE insertHeader(Head(inputHeaders), sortHeaders(Tail(inputHeaders)))

\* the header objects a program passes to its requests and what they may
\* hold: the program may change an object between two requests
HeaderObjects == {"h1", "h2"}
HeaderContents ==
  {<<>>, <<<<"x-a", "1">>>>, <<<<"x-a", "2">>>>,
   <<<<"x-a", "1">>, <<"Content-Type", "t">>>>,
   <<<<"x-a", "1">>, <<"b", "2">>>>}
\* headerCache (line 25): nothing is cached for an object at first
NotCached == [has |-> FALSE, value |-> <<>>]
\* prepareHeaders (lines 107-126) with the cache as it is: the pairs
\* returned and the cache afterwards
prepareHeaders(headerCache, object, headers, sorted) ==
  IF headerCache[object].has
  THEN [result |-> headerCache[object].value, cache |-> headerCache]
  ELSE LET result == IF sorted THEN sortHeaders(headers) ELSE headers
       IN [result |-> result,
           cache |-> [headerCache EXCEPT
                        ![object] = [has |-> TRUE, value |-> result]]]
\* the other options of the builds examined
HeaderOptions(ordered) ==
  [method |-> "GET", version |-> "1.1", proxy |-> NoProxy, tls |-> "none",
   dns |-> "none", compress |-> TRUE, follow |-> "undefined",
   keepAlive |-> "true", keepAliveProbes |-> "3", body |-> NoBody,
   headers |-> ordered, url |-> <<"http://h/a">>, HTTP2 |-> TRUE,
   fastOpen |-> TRUE]

HeaderInit ==
  /\ concurrentRequests = 0 /\ cacheServer = "none" /\ store = "none"
  /\ call = EmptyBag /\ burst = TRUE
  /\ now = 0 /\ data = <<>> /\ config = "none"
  /\ probe \in [contents : [HeaderObjects -> HeaderContents],
                headerCache : {[o \in HeaderObjects |-> NotCached]},
                built : {FALSE}, object : {"h1"}, sort : {FALSE},
                input : {<<>>}, result : {NoCommand}]

\* the program changes what a header object holds
SetHeaders(object, headers) ==
  /\ probe.contents[object] # headers
  /\ probe' = [probe EXCEPT !.contents[object] = headers]
  /\ UNCHANGED <<now, data, config>>
  /\ UNCHANGED httpVars

\* BuildCommand with options.headers the object and options.sortHeaders
\* the setting (line 299)
BuildWithHeaders(object, sorted) ==
  /\ LET prepared == prepareHeaders(probe.headerCache, object,
                                    probe.contents[object], sorted)
     IN probe' = [probe EXCEPT
          !.headerCache = prepared.cache, !.built = TRUE,
          !.object = object, !.sort = sorted,
          !.input = probe.contents[object],
          !.result = BuildCommand(HeaderOptions(prepared.result))]
  /\ UNCHANGED <<now, data, config>>
  /\ UNCHANGED httpVars

HeaderNext ==
  \/ \E object \in HeaderObjects, headers \in HeaderContents :
       SetHeaders(object, headers)
  \/ \E object \in HeaderObjects, sorted \in BOOLEAN :
       BuildWithHeaders(object, sorted)
HeaderSpec == HeaderInit /\ [][HeaderNext]_vars

\* ---- the DNS pinning of the command builder (command.ts) ----
\* Host names and addresses are texts of characters.
Letters == {"f", "g", "h"}
DigitChars == <<"0", "1", "2", "3", "4", "5", "6", "7", "8", "9">>
isDigit(c) == \E i \in 1..10 : DigitChars[i] = c
digitOf(c) == (CHOOSE i \in 1..10 : DigitChars[i] = c) - 1
\* containsAlphabet (utils.ts lines 229-237)
containsAlphabet(str) == \E i \in 1..Len(str) : str[i] \in Letters
\* the number a part of digits stands for (lines 218-225)
RECURSIVE numOf(_, _)
numOf(part, num) ==
  IF part = <<>> THEN num
  ELSE numOf(Tail(part), num * 10 + digitOf(Head(part)))
\* isValidIPv4 (utils.ts lines 208-227)
isValidIPv4(ip) ==
  LET parts == split(ip, ".")
  IN /\ Len(parts) = 4
     /\ \A p \in 1..Len(parts) :
          LET part == parts[p]
          IN /\ Len(part) # 0 /\ Len(part) <= 3
             /\ ~(Len(part) > 1 /\ part[1] = "0")
             /\ \A i \in 1..Len(part) : isDigit(part[i])
             /\ numOf(part, 0) <= 255

\* DNS_CACHE = new TTLCache({ maxItems: 255 }) (constants.ts line 103)
DNS_CACHE_maxItems == 255
\* PROTOCOL_PORTS[url.protocol] ?? '443' (constants.ts lines 73-90)
PROTOCOL_PORTS(protocol) == IF protocol = "http:" THEN "80" ELSE "443"

\* the URLs of the builds: protocol and host
DnsUrls ==
  {[protocol |-> "http:", host |-> <<"h">>],
   [protocol |-> "https:", host |-> <<"1", "0", ".", "0", ".", "0", ".", "1">>]}
\* addresses: those options.dns.resolve may hold (<<>> when it is not
\* given) and those dns.lookup may answer (<<>> for no record)
Addr1234 == <<"1", ".", "2", ".", "3", ".", "4">>
Addr5678 == <<"5", ".", "6", ".", "7", ".", "8">>
AddrShort == <<"1", ".", "2", ".", "3">>
AddrLarge == <<"2", "5", "6", ".", "1", ".", "1", ".", "1">>
AddrSix == <<":", ":", "1">>
\* options.dns after prepareOptions: cache is false (enabled FALSE), true
\* (enabled, no seconds) or a number of seconds; servers given or not
DnsOptions ==
  [enabled : {FALSE}, seconds : {Unset}, servers : BOOLEAN,
   resolve : {<<>>}]
  \cup
  [enabled : {FALSE}, seconds : {Unset}, servers : {FALSE},
   resolve : {Addr5678}]
  \cup
  [enabled : {TRUE}, seconds : {Unset, Some(1)},
   servers : {FALSE}, resolve : {<<>>, Addr5678, AddrShort}]
\* what dns.lookup(host, {family: 4}) gives: it throws, or answers an
\* address
LookupAnswers ==
  [throws : {TRUE}, address : {<<>>}]
  \cup [throws : {FALSE},
        address : {<<>>, Addr1234, AddrLarge, AddrSix}]

\* buildDNSOptions (lines 172-217) at the time t with the DNS cache m:
\* the flags pushed, the cache afterwards, whether dns.lookup was called
\* and whether DNS_CACHE.set was
buildDNSOptionsAt(m, t, url, dnsOpts, supports, answer) ==
  LET serverFlags ==
        IF dnsOpts.servers /\ supports.DNS_SERVERS
        THEN <<<<"--dns-servers">>, <<"1.1.1.1,1.0.0.1">>>> ELSE <<>>
      enters == dnsOpts.enabled /\ supports.DNS_RESOLVE
                  /\ containsAlphabet(url.host)
      got == TTLCacheGet(m, url.host, t)
      cached == mapHas(got.data, url.host)
      looks == dnsOpts.resolve = <<>> /\ ~cached
      resolveIP ==
        IF dnsOpts.resolve # <<>> THEN dnsOpts.resolve
        ELSE IF cached THEN mapGet(got.data, url.host).value
        ELSE IF answer.throws THEN <<>> ELSE answer.address
      pins == resolveIP # <<>> /\ isValidIPv4(resolveIP)
      ttl == IF dnsOpts.seconds # Unset THEN dnsOpts.seconds[1] ELSE 30
  IN IF ~enters
     THEN [flags |-> serverFlags, data |-> m, looked |-> FALSE,
           stored |-> FALSE]
     ELSE [flags |->
             serverFlags \o
             (IF pins
              THEN <<<<"--resolve">>,
                     url.host \o <<":", PROTOCOL_PORTS(url.protocol), ":">>
                       \o resolveIP>>
              ELSE <<>>),
           data |-> IF pins /\ ~cached
                    THEN TTLCacheSet(got.data, DNS_CACHE_maxItems, url.host,
                                     resolveIP, ttl, t)
                    ELSE got.data,
           looked |-> looks, stored |-> pins /\ ~cached]

\* the moments builds are made at, in milliseconds
DnsInstants ==
  {0, 1, 30, 999, 1000, 299999, 300000}
NoBuild ==
  [built |-> FALSE, url |-> [protocol |-> "http:", host |-> <<"h">>],
   dns |-> [enabled |-> FALSE, seconds |-> Unset, servers |-> FALSE,
            resolve |-> <<>>],
   answer |-> [throws |-> TRUE, address |-> <<>>], before |-> <<>>,
   flags |-> <<>>, looked |-> FALSE, stored |-> FALSE]
DnsInit ==
  /\ concurrentRequests = 0 /\ cacheServer = "none" /\ store = "none"
  /\ call = EmptyBag /\ burst = TRUE
  /\ now = 0
  /\ data = <<>>
  /\ config \in [DNS_RESOLVE : BOOLEAN, DNS_SERVERS : BOOLEAN]
  /\ probe = [build |-> NoBuild, cachedAt |-> <<>>]

\* time passes
DnsTick(t) ==
  /\ t > now
  /\ now' = t
  /\ probe' = [probe EXCEPT !.build = NoBuild]
  /\ UNCHANGED <<data, config>>
  /\ UNCHANGED httpVars

\* a build: buildDNSOptions with the cache and the clock as they are
\* (the answer of dns.lookup is kept when it was asked for);
\* probe.cachedAt keeps, for the entries of the cache, when they were
\* stored and with which dns.cache
BuildDns(url, dnsOpts, answer) ==
  /\ LET r == buildDNSOptionsAt(data, now, url, dnsOpts, config, answer)
     IN /\ data' = r.data
        /\ probe' =
             [build |-> [built |-> TRUE, url |-> url, dns |-> dnsOpts,
                         answer |-> IF r.looked THEN answer
                                    ELSE NoBuild.answer,
                         before |-> data,
                         flags |-> r.flags, looked |-> r.looked,
                         stored |-> r.stored],
              cachedAt |->
                IF r.stored
                THEN mapSet(probe.cachedAt, url.host,
                            [key |-> url.host, at |-> now,
                             seconds |-> dnsOpts.seconds])
                ELSE probe.cachedAt]
  /\ UNCHANGED <<now, config>>
  /\ UNCHANGED httpVars

DnsNext ==
  \/ \E t \in DnsInstants : DnsTick(t)
  \/ \E url \in DnsUrls, dnsOpts \in DnsOptions, answer \in LookupAnswers :
       BuildDns(url, dnsOpts, answer)
DnsSpec == DnsInit /\ [][DnsNext]_vars

\* ---- Http under the scheduling of the runtime ----
\* What is bound to happen once it can: the continuations of the awaits
\* of Http, the exit of a spawned process (by itself or after proc.kill)
\* and the answers of the cache store.  Nothing obliges a program to call
\* Http, a signal to fire, a consumer to cancel or an entry to expire.
\* The program examined makes its calls one after the other.
\* (a runtime in which a process may never exit)
Progress_ProcessMayHang ==
  \/ \E r \in Calls : GetCacheKeyDone(r)
  \/ \E r \in Calls : CacheGetDone(r)
  \/ \E r \in Calls : CacheGetFail(r)
  \/ \E r \in Calls : BuildCommandDone(r)
  \/ \E r \in Calls : BuildCommandThrows(r)
  \/ \E r \in Calls : StdoutResolved(r)
  \/ \E r \in Calls : RaceContinue(r)
  \/ \E r \in Calls : AbortExitDone(r)
  \/ \E r \in Calls, p \in Succeeded :
        ProcExitedDone(r, p.exitCode, p.stdout, p.stderr)
  \/ \E r \in Calls, p \in Failed :
        ProcExitedDone(r, p.exitCode, p.stdout, p.stderr)
  \/ \E r \in Calls, v \in BOOLEAN : ValidateDone(r, v)
  \/ \E r \in Calls : CacheSetDone(r)
  \/ \E r \in Calls : CacheSetFail(r)
  \/ \E r \in Calls, head \in RawTexts : ParseReaderDone(r, head)
  \/ \E r \in Calls : ParseReaderThrows(r)
Progress ==
  \/ \E r \in Calls : GetCacheKeyDone(r)
  \/ \E r \in Calls : CacheGetDone(r)
  \/ \E r \in Calls : CacheGetFail(r)
  \/ \E r \in Calls : BuildCommandDone(r)
  \/ \E r \in Calls : BuildCommandThrows(r)
  \/ \E r \in Calls : ProcExit(r)
  \/ \E r \in Calls : StdoutResolved(r)
  \/ \E r \in Calls : RaceContinue(r)
  \/ \E r \in Calls : AbortExitDone(r)
  \/ \E r \in Calls, p \in Succeeded :
        ProcExitedDone(r, p.exitCode, p.stdout, p.stderr)
  \/ \E r \in Calls, p \in Failed :
        ProcExitedDone(r, p.exitCode, p.stdout, p.stderr)
  \/ \E r \in Calls, v \in BOOLEAN : ValidateDone(r, v)
  \/ \E r \in Calls : CacheSetDone(r)
  \/ \E r \in Calls : CacheSetFail(r)
  \/ \E r \in Calls, head \in RawTexts : ParseReaderDone(r, head)
  \/ \E r \in Calls : ParseReaderThrows(r)
\* a program that awaits each call of Http before it makes the next
Awaited == \A r \in Calls : r.pc = "done"
LiveNext ==
  \/ \E cache \in CacheOptions, stream \in BOOLEAN, aborted \in BOOLEAN :
        Awaited /\ HttpCall(cache, stream, aborted)
  \/ \E r \in Calls : GetCacheKeyDone(r)
  \/ \E r \in Calls : CacheGetDone(r)
  \/ \E r \in Calls : CacheGetFail(r)
  \/ \E r \in Calls : BuildCommandDone(r)
  \/ \E r \in Calls : BuildCommandThrows(r)
  \/ \E r \in Calls : ProcExit(r)
  \/ \E r \in Calls : StdoutResolved(r)
  \/ \E r \in Calls : RaceContinue(r)
  \/ \E r \in Calls : AbortFire(r)
  \/ \E r \in Calls : AbortExitDone(r)
  \/ \E r \in Calls, p \in ProcessResults :
        ProcExitedDone(r, p.exitCode, p.stdout, p.stderr)
  \/ \E r \in Calls, v \in BOOLEAN : ValidateDone(r, v)
  \/ \E r \in Calls : CacheSetDone(r)
  \/ \E r \in Calls : CacheSetFail(r)
  \/ \E r \in Calls, head \in RawTexts : ParseReaderDone(r, head)
  \/ \E r \in Calls : ParseReaderThrows(r)
  \/ \E r \in Calls : StreamCancel(r)
  \/ Expire
LiveSpec == Init /\ [][LiveNext]_vars /\ WF_vars(Progress)

\* ---- the expiring map on its own: set, get, delete ----
MaxEntries == 2        \* options.maxItems of the map examined
MapKeys == {"k1", "k2", "k3"}
\* the moments of the operations and the time an entry is stored for, in
\* milliseconds
MapInstants == {0, 500, 1000, 1500}
MapTtl == {1000}

MapInit ==
  /\ concurrentRequests = 0 /\ cacheServer = "none" /\ store = "none"
  /\ call = EmptyBag /\ burst = TRUE
  /\ now = 0
  /\ data = <<>>
  /\ config = [maxItems |-> MaxEntries]
  /\ probe = [op |-> "none", key |-> "k1", before |-> <<>>]

\* time passes
MapTick(t) ==
  /\ t > now
  /\ now' = t
  /\ probe' = [op |-> "none", key |-> "k1", before |-> <<>>]
  /\ UNCHANGED <<data, config>>
  /\ UNCHANGED httpVars

\* TTLCache.set (lines 358-365)
MapSet(key, value, ttlMs) ==
  /\ data' = TTLCacheSet(data, config.maxItems, key, value, ttlMs, now)
  /\ probe' = [op |-> "set", key |-> key, before |-> data]
  /\ UNCHANGED <<now, config>>
  /\ UNCHANGED httpVars

\* TTLCache.get (lines 370-380)
MapGet(key) ==
  /\ data' = TTLCacheGet(data, key, now).data
  /\ probe' = [op |-> "get", key |-> key, before |-> data]
  /\ UNCHANGED <<now, config>>
  /\ UNCHANGED httpVars

\* TTLCache.delete (lines 399-401)
MapDelete(key) ==
  /\ data' = mapDelete(data, key)
  /\ probe' = [op |-> "delete", key |-> key, before |-> data]
  /\ UNCHANGED <<now, config>>
  /\ UNCHANGED httpVars

MapNext ==
  \/ \E t \in MapInstants : MapTick(t)
  \/ \E key \in MapKeys, value \in Values, ttlMs \in MapTtl :
       MapSet(key, value, ttlMs)
  \/ \E key \in MapKeys : MapGet(key)
  \/ \E key \in MapKeys : MapDelete(key)
MapSpec == MapInit /\ [][MapNext]_vars
\* ---- properties ---------------------------------------------------------
\* the number of calls, counted with multiplicity, whose record is in S
NumIn(S) == BagCardinality([r \in S \cap Calls |-> CopiesIn(r, call)])
\* in this step the call with record r went on as s; a call entered as s
Moved(r, s) ==
  /\ CopiesIn(r, call) > CopiesIn(r, call')
  /\ CopiesIn(s, call') > CopiesIn(s, call)
Entered(s) ==
  /\ BagCardinality(call') > BagCardinality(call)
  /\ CopiesIn(s, call') > CopiesIn(s, call)

InInvocationPath(r) == r.pc \in InvocationPcs
Rejected(r) ==
  r.pc = "done" /\ r.outcome = "ERR_CONCURRENT_REQUESTS_REACHED"
LiveProcesses == {r \in Calls : r.proc \in {"running", "killed"}}

\* C1: whatever the interleaving of concurrent calls, caching calls
\* included, the in-flight counter never exceeds the ceiling.
C1_CounterWithinCeiling == concurrentRequests <= MaxConcurrent

\* C2: a call is rejected with ERR_CONCURRENT_REQUESTS_REACHED exactly
\* when the counter is at or above the ceiling when it is made; the
\* rejection happens in the call step itself, spawns nothing, reads no
\* cache, leaves the counter, the store and the other calls as they are;
\* and of k calls issued back-to-back all but the first MaxConcurrent
\* are rejected while the others proceed (ceiling 5, 6 calls: one).
C2_CallStep ==
  \A s \in BagToSet(call') :
    Entered(s) =>
      /\ Rejected(s) <=> (concurrentRequests >= MaxConcurrent)
      /\ Rejected(s) =>
            /\ concurrentRequests' = concurrentRequests
            /\ store' = store
            /\ s.spawns = 0 /\ s.proc = "none"
            /\ s.reads = 0
C2_BackToBack ==
  burst =>
    LET k == BagCardinality(call)
        rejected == {r \in Calls : Rejected(r)}
    IN /\ NumIn(rejected) =
            (IF k > MaxConcurrent THEN k - MaxConcurrent ELSE 0)
       /\ \A r \in Calls \ rejected : r.pc # "done"
C2_RejectedExactlyAtCeiling == [][C2_CallStep]_vars /\ []C2_BackToBack

\* C3: the counter equals the number of calls that are between the
\* increment of line 731 and the finally block, is never negative and is
\* 0 when no call is in progress.
C3_CounterMatchesInvocations ==
  /\ concurrentRequests = NumIn({r \in Calls : InInvocationPath(r)})
  /\ concurrentRequests >= 0
  /\ (\A r \in Calls : r.pc = "done") => concurrentRequests = 0
C3_Witness ==
  \E r, s \in Calls :
    /\ r.pc = "done" /\ r.outcome = "AbortError"
    /\ s.pc = "done" /\ s.outcome = "response"
    /\ s.writes = 1
    /\ concurrentRequests = 0

\* C4: the number of external processes spawned and not yet exited never
\* exceeds the ceiling, for buffered and for streaming calls.
C4_ProcessesWithinCeiling == NumIn(LiveProcesses) <= MaxConcurrent

Settles(r, s) == Moved(r, s) /\ r.pc # "done" /\ s.pc = "done"

\* C5: a call whose signal is already set when it is made never spawns
\* the process and rejects with AbortError (a rejection by the admission
\* check, which comes before anything else, is let through here).
C5_PreAbortedStep ==
  \A r \in Calls, s \in BagToSet(call') :
    (Moved(r, s) /\ r.firedAt = "idle") =>
      /\ s.spawns = r.spawns
      /\ Settles(r, s) => s.outcome = "AbortError"
C5_PreAbortedNeverSpawns == [][C5_PreAbortedStep]_vars

\* C6: a call whose signal fired while it was in progress, at whatever
\* moment before it settled, settles with AbortError.
C6_SettleStep ==
  \A r \in Calls, s \in BagToSet(call') :
    (Settles(r, s) /\ r.firedAt \in {"early", "pre", "race", "late"})
      => s.outcome = "AbortError"
C6_AbortBeatsEveryOutcome == [][C6_SettleStep]_vars

\* C7: in buffered mode a signal that fires while stdout is being read
\* kills the process and the call then rejects with AbortError, without
\* a cache write and with the counter released.
C7_Step ==
  \A r \in Calls, s \in BagToSet(call') :
    Moved(r, s) =>
      /\ (r.pc = "race" /\ s.firedAt = "race") =>
            /\ s.killed
            /\ s.proc \in {"killed", "exited"}
            /\ s.pc = "abortExit"
      /\ (r.pc = "abortExit" /\ r.firedAt = "race") =>
            /\ s.pc \in {"abortExit", "done"}
            /\ s.pc = "done" =>
                  /\ s.outcome = "AbortError"
                  /\ r.killed /\ s.proc = "exited"
                  /\ s.writes = 0 /\ store' = store
                  /\ concurrentRequests' = concurrentRequests - 1
C7_State ==
  \A r \in Calls :
    (~r.stream /\ r.firedAt = "race") =>
      /\ r.pc \in {"abortExit", "done"}
      /\ r.proc \in {"killed", "exited"}
      /\ r.writes = 0
      /\ r.pc = "done" => r.outcome = "AbortError" /\ r.proc = "exited"
C7_AbortDuringRead == []C7_State /\ [][C7_Step]_vars
C7_Witness ==
  \E r \in Calls :
    /\ r.pc = "done" /\ r.outcome = "AbortError"
    /\ r.firedAt = "race"
    /\ ~r.stream /\ r.spawns = 1 /\ r.writes = 0
    /\ store = "none" /\ cacheServer = "TTLCache"
    /\ concurrentRequests = 0

\* C8: in one call the cache get comes before the spawn and the spawn
\* before the cache set; a call sets the cache at most once, only after
\* its own process exited with code 0 and its output was built; a call
\* that hit the cache, was rejected, was cancelled, failed in transport,
\* failed to parse or exceeded the body size never sets it.
NonWritingOutcomes ==
  {"ERR_CONCURRENT_REQUESTS_REACHED", "AbortError", "ERR_CURL_FAILED",
   "TypeError", "ERR_BODY_SIZE_EXCEEDED"}
C8_State ==
  \A r \in Calls :
    /\ r.writes <= 1
    /\ r.writes = 1 =>
          /\ r.spawns = 1 /\ r.proc = "exited"
          /\ r.exitCode = 0
          /\ r.resp.err = "none" /\ ~r.resp.cached
    /\ r.outcome \in NonWritingOutcomes => r.writes = 0
    /\ r.resp.cached => r.writes = 0
C8_Step ==
  /\ \A r \in Calls, s \in BagToSet(call') :
        Moved(r, s) =>
          /\ s.reads > r.reads => r.spawns = 0 /\ r.proc = "none"
          /\ s.spawns > r.spawns => r.writes = 0
          /\ s.writes > r.writes =>
                /\ r.spawns = 1 /\ r.proc = "exited"
                /\ s.exitCode = 0
                /\ s.resp.err = "none" /\ ~s.resp.cached
  /\ store' \notin {store, "none"} =>
        \E r \in Calls, s \in BagToSet(call') :
          Moved(r, s) /\ s.writes = r.writes + 1
C8_LookupSpawnWriteOrder == []C8_State /\ [][C8_Step]_vars
C8_Witness ==
  \E r \in Calls :
    /\ r.pc = "done" /\ r.writes = 1 /\ r.spawns = 1
    /\ r.outcome = "response" /\ store = "ok"
    /\ cacheServer = "RedisClient"

\* C9: a cache hit returns an envelope built from the stored text and
\* marked cached=true without spawning a process; a response from a
\* fresh invocation is marked cached=false.
C9_State ==
  \A r \in Calls :
    (r.pc = "done" /\ r.outcome = "response") =>
      /\ r.resp.err = "none"
      /\ r.resp.cached <=> (r.spawns = 0)
C9_Step ==
  \A r \in Calls, s \in BagToSet(call') :
    (Moved(r, s) /\ r.pc = "cacheGet" /\ s.pc = "done"
       /\ s.outcome = "response") =>
      /\ store # "none"
      /\ s.resp.cached /\ s.resp.raw = store
      /\ s.spawns = 0 /\ s.proc = "none"
      /\ concurrentRequests' = concurrentRequests
C9_CachedFlag == []C9_State /\ [][C9_Step]_vars
C9_Witness ==
  \E r, s \in Calls :
    /\ r.pc = "done" /\ r.outcome = "response"
    /\ r.resp.cached /\ r.spawns = 0
    /\ s.pc = "done" /\ s.outcome = "response"
    /\ ~s.resp.cached /\ s.spawns = 1

\* C10: the store is read only for a call with caching enabled, a store
\* configured and no streaming; a streaming call and a call with caching
\* disabled neither read nor write it.
UsesNoCache(r) ==
  /\ r.reads = 0 /\ r.writes = 0 /\ ~r.cacheKey
  /\ r.pc \notin {"getCacheKey", "cacheGet", "validate", "cacheSet"}
C10_State ==
  \A r \in Calls :
    /\ r.reads > 0 =>
          /\ r.cache # "off" /\ cacheServer # "none"
          /\ ~r.stream
    /\ r.stream => UsesNoCache(r)
    /\ (r.pc # "done" /\ r.cache = "off") => UsesNoCache(r)
C10_Step ==
  \A r \in Calls, s \in BagToSet(call') :
    (Moved(r, s) /\ r.pc # "done" /\ (r.stream \/ r.cache = "off")) =>
      /\ store' = store
      /\ s.reads = 0 /\ s.writes = 0
C10_CacheGating == []C10_State /\ [][C10_Step]_vars
C10_Witness ==
  \E r, s \in Calls :
    /\ r.stream /\ r.cache = "validate"
    /\ r.pc = "parseReader" /\ r.proc = "running"
    /\ r.reads = 0 /\ store = "ok"
    /\ s.pc = "done" /\ s.writes = 1

\* ---- properties of the expiring map -------------------------------------
SetStep == probe'.op = "set" /\ probe'.writes = probe.writes + 1
GetStep == probe'.op = "get" /\ probe' # probe
Unexpired(m, k) == mapHas(m, k) /\ now < mapGet(m, k).expiresAt

\* C11: a cache write never replaces or extends an entry that is present
\* and unexpired for the same key: the first writer's value and expiry
\* time remain.
C11_WriteStep ==
  (SetStep /\ Unexpired(data, probe'.key)) =>
    /\ mapHas(data', probe'.key)
    /\ mapGet(data', probe'.key) = mapGet(data, probe'.key)
C11_FirstWriterRemains == [][C11_WriteStep]_vars

\* C15: an entry written at time T with TTL t (options.cache.expire when
\* given, the default expiration otherwise, 5 seconds when that is unset)
\* is returned by every lookup before T+t and by no lookup at or after
\* T+t, which finds nothing.
C15_Ttl(w) ==
  1000 * (IF w.expire # Unset THEN w.expire[1]
          ELSE IF config.defaultExpiration # Unset
          THEN config.defaultExpiration[1] ELSE 5)
C15_GetStep ==
  GetStep =>
    LET w == probe.wrote[probe'.key]
    IN probe'.value = (IF w.at >= 0 /\ now < w.at + C15_Ttl(w)
                       THEN w.value ELSE "null")
Continues(r, P(_)) == \E s \in BagToSet(call') : Moved(r, s) /\ P(s)
\* this step is one of the call with record r
StepOf(r) == CopiesIn(r, call) > CopiesIn(r, call')

\* C12: a failure of the cache store never fails the call: a get that
\* rejects lets the call go on to the invocation as on a miss, a set that
\* fails after a successful invocation still returns the built response.
C12_Step ==
  \A r \in Calls :
    /\ CacheGetFail(r) =>
          Continues(r, LAMBDA s : s.pc = "BuildCommand")
    /\ CacheSetFail(r) =>
          Continues(r, LAMBDA s : /\ s.pc = "done"
                                  /\ s.outcome = "response"
                                  /\ s.resp = r.resp)
C12_StoreFailureNeverFails == [][C12_Step]_vars

\* C13: when the validator yields a falsy value the call returns the
\* freshly built response with cached=false and the store is left as it
\* is, so that a lookup that follows misses again; when it yields true
\* the raw text is stored and a lookup that follows is a hit
\* (cached=true).
C13_Step ==
  \A r \in Calls :
    /\ ValidateDone(r, FALSE) =>
          /\ store' = store
          /\ Continues(r, LAMBDA s : /\ s.pc = "done"
                                     /\ s.outcome = "response"
                                     /\ s.resp = r.resp
                                     /\ s.resp.err = "none"
                                     /\ ~s.resp.cached
                                     /\ s.writes = 0)
    /\ ValidateDone(r, TRUE) =>
          IF cacheServer = "TTLCache"
          THEN /\ store' = r.resp.raw
               /\ Continues(r, LAMBDA s : /\ s.outcome = "response"
                                          /\ s.resp = r.resp
                                          /\ s.writes = 1)
          ELSE Continues(r, LAMBDA s : s.pc = "cacheSet")
    /\ CacheSetDone(r) =>
          /\ store' = (IF store = "none" THEN r.resp.raw ELSE store)
          /\ Continues(r, LAMBDA s : /\ s.outcome = "response"
                                     /\ s.resp = r.resp
                                     /\ s.writes = 1)
    /\ (CacheGetDone(r) /\ store = "none") =>
          Continues(r, LAMBDA s : s.pc = "BuildCommand")
    /\ (CacheGetDone(r) /\ store = "ok") =>
          Continues(r, LAMBDA s : /\ s.outcome = "response"
                                  /\ s.resp.cached
                                  /\ s.resp.raw = "ok")
C13_State ==
  \A r \in Calls :
    /\ r.valid = "falsy" =>
          /\ r.pc = "done" /\ r.outcome = "response"
          /\ ~r.resp.cached /\ r.writes = 0
    /\ r.writes = 1 => r.valid = "true"
C13_ValidatorDecidesWrite == []C13_State /\ [][C13_Step]_vars
C13_Witness ==
  \E r, s \in Calls :
    /\ r.pc = "done" /\ r.valid = "falsy"
    /\ r.outcome = "response" /\ ~r.resp.cached /\ r.writes = 0
    /\ store = "none" /\ cacheServer = "TTLCache"
    /\ s.cache = "validate" /\ s.reads = 1 /\ s.pc = "BuildCommand"

\* C14: with a store configured, a successful call made with
\* `cache: true` that was not served from the cache returns cached=false
\* and stores its result, so that a second identical call before the
\* expiration is a hit.
C14_Step ==
  \A r \in Calls, s \in BagToSet(call') :
    (Settles(r, s) /\ r.cache = "true" /\ r.cacheKey
       /\ s.outcome = "response" /\ ~s.resp.cached) =>
      /\ s.writes = 1
      /\ store' # "none"
C14_CacheTrueStores == [][C14_Step]_vars

\* C16: a stored value that cannot be parsed into a response is treated
\* as a miss: the call goes on to spawn the process, raises no error, and
\* the response it builds is fresh (cached=false).
Unparseable(raw) == raw # "none" /\ processAndBuild(raw, TRUE).err # "none"
C16_Step ==
  \A r \in Calls :
    (CacheGetDone(r) /\ Unparseable(store)) =>
      /\ concurrentRequests' = concurrentRequests + 1
      /\ Continues(r, LAMBDA s : /\ s.pc = "BuildCommand"
                                 /\ s.outcome = "none"
                                 /\ s.spawns = 0
                                 /\ s.resp = NoResp)
C16_State ==
  \A r \in Calls :
    (r.spawns = 1 /\ r.resp.err = "none") => ~r.resp.cached
C16_UnparseableIsMiss == []C16_State /\ [][C16_Step]_vars
C16_Witness ==
  \E r \in Calls :
    /\ Unparseable(store)
    /\ r.reads = 1 /\ r.spawns = 1 /\ r.proc = "exited"
    /\ r.pc = "cacheSet"
    /\ r.resp.err = "none" /\ ~r.resp.cached

\* C17: in buffered mode a non-zero exit code rejects the call with
\* ERR_CURL_FAILED carrying the exit code and the stderr text with a
\* leading `curl: (N) ` removed, whatever was written to stdout; the
\* process was spawned once and nothing is written to the cache.
C17_Message(text) ==
  LET t == trim(text)
  IN IF t # <<>> /\ Head(t) = "curl: (N)" THEN trimStart(Tail(t)) ELSE t
C17_Step ==
  \A r \in {c \in Calls : c.pc = "procExited"} :
    \A p \in {q \in ProcessResults : q.exitCode # 0} :
      (StepOf(r) /\ ProcExitedDone(r, p.exitCode, p.stdout, p.stderr)) =>
        /\ store' = store
        /\ Continues(r, LAMBDA s : /\ s.pc = "done"
                                   /\ s.outcome = "ERR_CURL_FAILED"
                                   /\ s.exitCode = p.exitCode
                                   /\ s.message = C17_Message(p.stderr)
                                   /\ s.resp = NoResp
                                   /\ s.spawns = 1
                                   /\ s.writes = 0)
C17_State ==
  \A r \in Calls :
    r.outcome = "ERR_CURL_FAILED" =>
      /\ ~r.stream /\ r.exitCode # 0
      /\ r.spawns = 1 /\ r.writes = 0
      /\ r.resp = NoResp
C18_Step ==
  \A r \in {c \in Calls : c.pc = "procExited"} :
    \A p \in {q \in ProcessResults :
                 q.exitCode = 0 /\ findHttpStarts(q.stdout) = 0} :
      (StepOf(r) /\ ProcExitedDone(r, p.exitCode, p.stdout, p.stderr)) =>
        /\ store' = store
        /\ Continues(r, LAMBDA s : /\ s.pc = "done"
                                   /\ s.outcome = "ERR_INVALID_RESPONSE"
                                   /\ s.resp = NoResp
                                   /\ s.writes = 0)
C18_NoStatusLineIsInvalidResponse == [][C18_Step]_vars

\* ---- properties of the frame parser --------------------------------------
\* a redirect frame; the raw output of k redirect frames and a final frame
RedirectFrame(f) ==
  f.status >= 300 /\ f.status < 400 /\ f.loc # NoLocation
RedirectChain(frames) ==
  /\ \A i \in 1..(Len(frames) - 1) : RedirectFrame(frames[i])
  /\ ~RedirectFrame(frames[Len(frames)])
\* the URL requested for hop i of a chain: the request URL for the first,
\* the Location of the hop before, resolved against that hop's URL, after
RECURSIVE HopUrl(_, _)
HopUrl(frames, i) ==
  IF i = 1 THEN RequestUrl
  ELSE LET before == HopUrl(frames, i - 1)
           loc == frames[i - 1].loc
       IN IF loc.host # "" THEN loc
          ELSE [host |-> before.host, path |-> loc.path]

\* C19: with redirects reported as URLs, for k redirect frames followed
\* by a final frame `redirects` is the list of the k Locations, each
\* resolved against the URL of its hop, in order, and the status is the
\* final frame's (302 /b, 301 /c, 200 against https://h/a: [https://h/b,
\* https://h/c] and 200).
C19_RedirectUrls ==
  (probe.built /\ ~probe.stream /\ probe.asUrls /\ RedirectChain(probe.frames)) =>
    LET k == Len(probe.frames) - 1
    IN /\ probe.result.err = "none"
       /\ probe.result.redirects =
            [i \in 1..k |-> HopUrl(probe.frames, i + 1)]
       /\ probe.result.status = probe.frames[k + 1].status
C19_Witness ==
  /\ probe.built /\ ~probe.stream /\ probe.asUrls
  /\ probe.frames = <<[status |-> 302, loc |-> [host |-> "", path |-> "/b"]],
                      [status |-> 301, loc |-> [host |-> "", path |-> "/c"]],
                      [status |-> 200, loc |-> NoLocation]>>
  /\ probe.result.redirects = <<[host |-> "h", path |-> "/b"],
                                [host |-> "h", path |-> "/c"]>>
  /\ probe.result.status = 200

\* C20: with redirects reported as response objects `redirects` holds
\* one envelope per non-final frame, in order, the i-th with the URL
\* requested for that hop, and the envelope returned is the last frame.
C20_Hops(frames) ==
  LET k == Len(frames) - 1
  IN /\ probe.result.err = "none"
     /\ Len(probe.result.redirects) = k
     /\ \A i \in 1..k :
          /\ probe.result.redirects[i].status = frames[i].status
          /\ probe.result.redirects[i].location = frames[i].loc
          /\ (i = 1 \/ RedirectFrame(frames[i - 1])) =>
                probe.result.redirects[i].url = HopUrl(frames, i)
     /\ probe.result.status = frames[k + 1].status
     /\ probe.result.location = frames[k + 1].loc
FollowedHops(frames) ==
  {i \in 1..(Len(frames) - 1) : RedirectFrame(frames[i])}
\* the URL requested after the first n frames of the output
RECURSIVE Destination(_, _)
Destination(frames, n) ==
  IF n = 0 THEN RequestUrl
  ELSE LET before == Destination(frames, n - 1)
           loc == frames[n].loc
       IN IF ~RedirectFrame(frames[n]) THEN before
          ELSE IF loc.host # "" THEN loc
          ELSE [host |-> before.host, path |-> loc.path]

\* C21: `redirected` is true exactly when at least one redirect hop was
\* followed, and `redirected` and the length of `redirects` are the same
\* in the two ways of reporting redirects, for every raw output.
C21_RedirectedFlag ==
  (probe.built /\ probe.result.err = "none") =>
    LET raw == RawOutput(probe.frames)
        urls == processAndBuildRedirects(RequestUrl, raw, TRUE)
        objects == processAndBuildRedirects(RequestUrl, raw, FALSE)
    IN /\ probe.result.redirected <=> (FollowedHops(probe.frames) # {})
       /\ urls.redirected = objects.redirected
       /\ Len(urls.redirects) = Len(objects.redirects)

\* C22: the url of the envelope is the destination after all followed
\* redirects (the request URL when none was followed), for buffered
\* calls, cache hits and streaming calls.
C22_FinalUrl ==
  (probe.built /\ probe.result.err = "none") =>
    probe.result.url = Destination(probe.frames, Len(probe.frames) - 1)

\* ---- properties of the cache key ----------------------------------------
\* the fields the key is derived from, and whether two descriptors agree
\* on one of them (header collections agree when they hold the same
\* name/value pairs)
SelectedFields(d) ==
  LET keys == IF d.keys = <<>> THEN CacheKeyFields ELSE d.keys
  IN {keys[i] : i \in 1..Len(keys)}
Pairs(h) == {h[i] : i \in 1..Len(h)}
AgreeOn(f, d, e) ==
  IF f = "headers" THEN Pairs(d.headers) = Pairs(e.headers) ELSE d[f] = e[f]

\* C23: the key is a function of exactly the selected fields: derived
\* twice it is the same, descriptors that agree on every selected field
\* get the same key whatever their other fields are, and descriptors that
\* differ in a selected field get different keys.
C23_KeyOfSelectedFields ==
  LET d == probe.first
      e == probe.second
      agree == \A f \in SelectedFields(d) : AgreeOn(f, d, e)
  IN /\ probe.again # NoKey => probe.again = probe.key1
     /\ probe.key1 # NoKey => (agree <=> probe.key1 = probe.key2)

\* ---- properties of the command builder -----------------------------------
\* where an argument occurs in the command built
Positions(arg) ==
  {i \in 1..Len(probe.result.cmd) : probe.result.cmd[i] = arg}
Built == probe.built /\ probe.result.err = "none"
VersionFlags == {<<"--http1.1">>, <<"--http2">>, <<"--http3">>}

\* C24: the HTTP-version flag is the explicit override of the request,
\* else HTTP/2 when the binary supports it and no proxy is set, else
\* HTTP/1.1; with a proxy set the HTTP/3 flag is never emitted.
C24_VersionFlag ==
  Built =>
    LET o == probe.options
        expected == IF o.version # "" THEN HTTP_VERSION(o.version)
                    ELSE IF o.HTTP2 /\ o.proxy = NoProxy THEN <<"--http2">>
                    ELSE <<"--http1.1">>
    IN /\ \A v \in VersionFlags : Positions(v) # {} <=> v = expected
       /\ o.proxy # NoProxy => Positions(<<"--http3">>) = {}

\* the group a flag belongs to, in the order the groups are listed
FlagGroups ==
  <<{<<"curl">>, <<"-i">>, <<"-s">>, <<"-S">>, <<"-m">>,
     <<"--connect-timeout">>},
    VersionFlags,
    {<<"--insecure">>, <<"--tlsv1.2">>, <<"--tls-max">>},
    {<<"--dns-servers">>},
    {<<"--compressed">>},
    {<<"--tcp-fastopen">>, <<"--tcp-nodelay">>},
    {<<"--proxy">>},
    {<<"--location">>, <<"--max-redirs">>},
    {<<"--no-keepalive">>, <<"--keepalive-time">>, <<"--keepalive-cnt">>},
    {<<"--data-raw">>},
    {<<"-H">>, <<"-A">>},
    {<<"-I">>, <<"-X">>}>>
AllFlags == UNION {FlagGroups[g] : g \in 1..Len(FlagGroups)}
GroupOf(flag) == CHOOSE g \in 1..Len(FlagGroups) : flag \in FlagGroups[g]
Present(flag) == Positions(flag) # {}
Once(flag) == Cardinality(Positions(flag)) = 1

\* C25: the flag groups of the argument vector come in the order base
\* flags and timeouts, HTTP version, TLS, DNS, compression (absent for
\* HEAD), TCP tuning, proxy, redirect-follow with the maximum of hops (10
\* unless a number is given), keep-alive (only with HTTP/1.1), body,
\* headers with exactly one user-agent flag, method flag (-I instead of
\* -X for HEAD), and the URL last with every [ and ] percent-encoded.
C25_FlagOrder ==
  Built =>
    LET o == probe.options
        cmd == probe.result.cmd
        flagAt == {i \in 1..(Len(cmd) - 1) : cmd[i] \in AllFlags}
        head == o.method \in {"HEAD", "head"}
        last == cmd[Len(cmd)]
    IN /\ \A i, j \in flagAt :
            i < j => GroupOf(cmd[i]) <= GroupOf(cmd[j])
       /\ \A f \in FlagGroups[1] : Once(f)
       /\ Cardinality({i \in flagAt : cmd[i] \in VersionFlags}) = 1
       /\ head => ~Present(<<"--compressed">>)
       /\ Present(<<"--location">>) <=> o.follow # "false"
       /\ \A i \in Positions(<<"--location">>) :
            /\ cmd[i + 1] = <<"--max-redirs">>
            /\ cmd[i + 2] = <<IF o.follow \in Numbers THEN o.follow ELSE "10">>
       /\ (\E f \in FlagGroups[9] : Present(f)) => Present(<<"--http1.1">>)
       /\ Once(<<"-A">>)
       /\ IF head
          THEN cmd[Len(cmd) - 1] = <<"-I">> /\ ~Present(<<"-X">>)
          ELSE /\ cmd[Len(cmd) - 2] = <<"-X">> /\ ~Present(<<"-I">>)
               /\ cmd[Len(cmd) - 1] \in {<<"GET">>, <<"POST">>}
       /\ Len(last) = Len(o.url)
       /\ \A i \in 1..Len(last) :
            last[i] = (IF o.url[i] = "[" THEN "%5B"
                       ELSE IF o.url[i] = "]" THEN "%5D" ELSE o.url[i])
C25_Witness ==
  /\ Built
  /\ probe.options.method = "post"
  /\ probe.result.cmd =
       <<<<"curl">>, <<"-i">>, <<"-s">>, <<"-S">>, <<"-m">>, <<"10">>,
         <<"--connect-timeout">>, <<"5">>, <<"--http1.1">>,
         <<"--insecure">>, <<"--tlsv1.2">>, <<"--tls-max">>, <<"1.3">>,
         <<"--dns-servers">>, <<"1.1.1.1,1.0.0.1">>,
         <<"--compressed">>, <<"--tcp-fastopen">>, <<"--tcp-nodelay">>,
         <<"--proxy">>, <<"http://", "u", ":", "p", "@", "h", ":", "8080">>,
         <<"--location">>, <<"--max-redirs">>, <<"3">>,
         <<"--keepalive-time">>, <<"30">>, <<"--keepalive-cnt">>, <<"3">>,
         <<"--data-raw">>, <<"{", "k", ":", "1", "}">>,
         <<"-H">>, <<"x-a", ": ", "1">>, <<"-A">>, <<"v">>,
         <<"-H">>, <<"content-type", ": ", "application/json">>,
         <<"-X">>, <<"POST">>,
         <<"http://h/a?q", "%5B", "0", "%5D", "=", "%5B", "%5D">>>>

\* C26: the body encoder infers application/json for a plain object, an
\* array and a string with the structure of a JSON object or array,
\* application/x-www-form-urlencoded for a string of key=value pairs
\* joined by & and for a URLSearchParams, text/plain for any other
\* string, and nothing for a binary body; the inferred type is emitted
\* as a synthesized content-type header exactly when there is one and
\* the caller gave no content-type header in any letter case.
C26_TypeOf(body) ==
  IF body.kind \in {"object", "array"} THEN <<"application/json">>
  ELSE IF body.kind = "URLSearchParams"
  THEN <<"application/x-www-form-urlencoded">>
  ELSE IF body.kind \in {"Blob", "undefined"} THEN NoType
  ELSE IF body.text \in {<<"{", "k", ":", "1", "}">>,
                         <<" ", "[", "1", ",", "1", "]">>}
  THEN <<"application/json">>
  ELSE IF body.text \in {<<"a", "=", "1", "&", "b", "=", "2">>, <<"a", "=">>}
  THEN <<"application/x-www-form-urlencoded">>
  ELSE <<"text/plain">>
C26_Types ==
  {<<"application/json">>, <<"application/x-www-form-urlencoded">>,
   <<"text/plain">>}
C27_Step ==
  \A r \in {c \in Calls : c.pc = "BuildCommand"} :
    (StepOf(r) /\ BuildCommandThrows(r)) =>
      /\ MalformedProxies # {}
      /\ concurrentRequests' = concurrentRequests - 1
      /\ store' = store
      /\ Continues(r, LAMBDA s : /\ s.pc = "done"
                                 /\ s.outcome = "BuildError"
                                 /\ s.spawns = 0 /\ s.proc = "none"
                                 /\ s.writes = 0
                                 /\ s.resp = NoResp)
C27_State ==
  /\ \A r \in Calls :
       r.outcome = "BuildError" =>
         /\ r.pc = "done"
         /\ r.spawns = 0 /\ r.proc = "none" /\ r.writes = 0
  /\ (\A r \in Calls : r.outcome = "BuildError") => concurrentRequests = 0
TooLong(raw) == bodyLength(raw) > MaxBodySize
C28_Step ==
  /\ \A r \in {c \in Calls : c.pc = "procExited"} :
       \A p \in {q \in ProcessResults :
                    q.exitCode = 0 /\ TooLong(q.stdout)} :
         (StepOf(r) /\ ProcExitedDone(r, p.exitCode, p.stdout, p.stderr)) =>
           /\ store' = store
           /\ Continues(r, LAMBDA s : /\ s.pc = "done"
                                      /\ s.outcome = "ERR_BODY_SIZE_EXCEEDED"
                                      /\ s.resp = NoResp
                                      /\ s.writes = 0)
  /\ ~TooLong(store')
C28_State ==
  /\ ~TooLong(store)
  /\ \A r \in Calls :
       /\ ~TooLong(r.resp.raw)
       /\ r.outcome = "ERR_BODY_SIZE_EXCEEDED" =>
            /\ r.pc = "done" /\ ~r.stream
            /\ r.spawns = 1 /\ r.exitCode = 0
            /\ r.writes = 0 /\ r.resp = NoResp
C28_BodySizeCeiling == []C28_State /\ [][C28_Step]_vars
C28_Witness ==
  \E r \in Calls :
    /\ r.pc = "done" /\ r.outcome = "ERR_BODY_SIZE_EXCEEDED"
    /\ r.spawns = 1 /\ r.proc = "exited" /\ r.exitCode = 0
    /\ r.writes = 0 /\ r.resp = NoResp
    /\ cacheServer = "TTLCache" /\ store = "none"

\* ---- properties of the streaming call ------------------------------------
\* C29: a streaming call whose signal was set when it was made, or fired
\* while the head of the response was awaited, settles with AbortError
\* and its process does not go on running; a signal that fires after the
\* envelope was returned kills the process and ends the body stream.
C29_Step ==
  \A r \in {c \in Calls : c.stream}, s \in BagToSet(call') :
    Moved(r, s) =>
      /\ (Settles(r, s) /\ r.pc = "parseReader" /\ r.firedAt = "pre") =>
            /\ s.outcome = "AbortError"
            /\ s.proc # "running"
      /\ (r.pc = "done" /\ r.outcome = "response" /\ r.listener
            /\ s.firedAt = "done") =>
            /\ s.killed /\ s.proc # "running"
            /\ ~s.listener
C29_StreamingCancellation == [][C29_Step]_vars

\* C30: a streaming call that fails because its process failed (stdout
\* ended before a complete head) rejects with the error of a transport
\* failure, which carries the exit code or the text of stderr.
C30_Step ==
  \A r \in {c \in Calls : c.stream /\ c.pc = "parseReader"} :
    \A s \in BagToSet(call') :
      (Settles(r, s) /\ s.outcome \notin {"response", "AbortError"}) =>
        /\ s.outcome = "ERR_CURL_FAILED"
        /\ s.exitCode # IdleCall.exitCode \/ s.message # IdleCall.message
C30_StreamingFailureCarriesDiagnostics == [][C30_Step]_vars

\* ---- properties of the parsers on the text -------------------------------
\* a frame the streaming parser is to skip, the first frame that remains,
\* the URLs of the redirects skipped before it
HasLocation(f) ==
  \E i \in 1..Len(f.headers) : f.headers[i][1] \in {"Location", "location"}
SkippedFrame(f) ==
  f.code = <<"100">> \/ (f.code = <<"302">> /\ HasLocation(f))
Remaining(frames) == {i \in 1..Len(frames) : ~SkippedFrame(frames[i])}
FirstRemaining(frames) ==
  CHOOSE i \in Remaining(frames) : \A j \in Remaining(frames) : i <= j
RECURSIVE SkippedUrls(_, _)
SkippedUrls(frames, cur) ==
  IF frames = <<>> \/ ~SkippedFrame(Head(frames)) THEN <<>>
  ELSE IF Head(frames) = Frame302
  THEN <<<<cur[1], "/", "b">>>> \o SkippedUrls(Tail(frames), <<cur[1], "/", "b">>)
  ELSE IF Head(frames) = Frame302Abs
  THEN <<<<"//g", "/", "d">>>> \o SkippedUrls(Tail(frames), <<"//g", "/", "d">>)
  ELSE SkippedUrls(Tail(frames), cur)
RECURSIVE Concat(_)
Concat(chunks) ==
  IF chunks = <<>> THEN <<>> ELSE Head(chunks) \o Concat(Tail(chunks))
Streamed == probe.stream /\ probe.stage # "raw"

\* C31: the streaming parser skips every 1xx frame and every 3xx frame
\* with a Location, whose resolved URL it appends to the redirects; what
\* the body stream delivers is what follows the blank line of the first
\* frame that remains: the leftover first, then the rest of stdout, in
\* order, nothing lost and nothing twice, however the text is cut into
\* chunks.
C31_StreamBody ==
  (Streamed /\ Remaining(probe.frames) # {}) =>
    LET k == FirstRemaining(probe.frames)
        body == probe.frames[k].body
                  \o OutputText(SubSeq(probe.frames, k + 1, Len(probe.frames)),
                                probe.eol)
    IN /\ probe.stage \in {"head", "closed"}
       /\ probe.redirects = SkippedUrls(probe.frames, StreamUrl)
       /\ probe.delivered \o probe.leftover \o Concat(probe.rest) = body
       /\ probe.stage = "closed" => probe.delivered = body
C31_Witness ==
  /\ probe.stream /\ probe.stage = "closed"
  /\ probe.frames = <<Frame302Abs, Frame302, Frame200Http>>
  /\ Len(probe.chunks) = 3
  /\ \E i \in 1..2 :
       LET c == probe.chunks[i]
           d == probe.chunks[i + 1]
       IN /\ Len(c) >= 2 /\ SubSeq(c, Len(c) - 1, Len(c)) = <<CR, LF>>
          /\ Len(d) > 2 /\ SubSeq(d, 1, 2) = <<CR, LF>>
          /\ d[3] = "x"
  /\ probe.redirects = <<<<"//g", "/", "d">>, <<"//g", "/", "b">>>>
  /\ probe.delivered = <<"x", LF, "HTTP/", "z">>

Parsed == ~probe.stream /\ probe.stage = "built"

\* C32: for an output with bare LF line endings the buffered parser
\* yields the status, the header pairs and the body it yields for the
\* same frames written with CRLF.
C32_LineFeedOnly ==
  (Parsed /\ probe.eol = <<LF>>) =>
    LET crlf == processAndBuildIn(OutputText(probe.frames, <<CR, LF>>))
    IN /\ probe.result.err = crlf.err
       /\ probe.result.status = crlf.status
       /\ probe.result.headers = crlf.headers
       /\ probe.result.body = crlf.body

\* the header pairs of a frame as a parser returns them
PairsOf(f) == [i \in 1..Len(f.headers) |-> <<<<f.headers[i][1]>>, f.headers[i][2]>>]
WellFormedCode(f) == f.code \in {<<"100">>, <<"200">>, <<"302">>}

\* C33: for an output that holds a single response the envelope has the
\* status, the header pairs in the order received and the body of that
\* response, whatever the body holds, lines that begin with HTTP/
\* included; nothing of a single response is discarded.
C33_SingleResponse ==
  (Parsed /\ probe.eol = <<CR, LF>> /\ Len(probe.frames) = 1
     /\ WellFormedCode(probe.frames[1])) =>
    LET f == probe.frames[1]
    IN /\ probe.result.err = "none"
       /\ probe.result.entries = 1
       /\ probe.result.status = parseInt(f.code)
       /\ probe.result.headers = PairsOf(f)
       /\ probe.result.body = f.body

\* C34: the status of a frame is an integer of three digits, a malformed
\* or missing code giving 500, in the buffered and in the streaming
\* parser alike (checked on outputs of a single frame).
C34_ThreeDigitStatus ==
  (probe.stage \in {"built", "head", "closed"} /\ Len(probe.frames) = 1
     /\ probe.eol = <<CR, LF>> /\ probe.frames[1] # Frame200Http) =>
    /\ probe.result.status >= 100 /\ probe.result.status <= 999
    /\ ~WellFormedCode(probe.frames[1]) => probe.result.status = 500

\* C35: the command builder is a pure function of its inputs: the
\* argument vector of a build is the one its header collection, as it is
\* at the time of the build, and its ordering setting give, whatever was
\* built before with the same header object.
C35_PureBuild ==
  probe.built =>
    probe.result =
      BuildCommand(HeaderOptions(IF probe.sort THEN sortHeaders(probe.input)
                                 ELSE probe.input))

\* the build made at the present moment and what it had at hand
DnsBuild == probe.build
\* the address held by the DNS cache for the host when the build began
CachedBefore ==
  LET got == TTLCacheGet(DnsBuild.before, DnsBuild.url.host, now)
  IN IF mapHas(got.data, DnsBuild.url.host)
     THEN mapGet(got.data, DnsBuild.url.host).value ELSE <<>>
\* the resolution available to the build: the explicit address, a cached
\* one, or the answer of the lookup
Available ==
  IF DnsBuild.dns.resolve # <<>> THEN DnsBuild.dns.resolve
  ELSE IF CachedBefore # <<>> THEN CachedBefore
  ELSE DnsBuild.answer.address
PinOf(ip) ==
  <<<<"--resolve">>,
    DnsBuild.url.host \o <<":", PROTOCOL_PORTS(DnsBuild.url.protocol), ":">>
      \o ip>>
HasPin(ip) ==
  \E i \in 1..(Len(DnsBuild.flags) - 1) :
    SubSeq(DnsBuild.flags, i, i + 1) = PinOf(ip)
AnyPin == \E i \in 1..Len(DnsBuild.flags) : DnsBuild.flags[i] = <<"--resolve">>

\* C36: with an alphabetic host, a binary that supports pinning and an
\* available resolution that is a well-formed IPv4 literal, the vector
\* holds the pin flag host:port:ip whether or not DNS caching is enabled;
\* the resolution is stored only when caching is enabled; a resolution
\* that is not a well-formed IPv4 literal never yields a pin flag.
C36_PinFlag ==
  DnsBuild.built =>
    /\ (containsAlphabet(DnsBuild.url.host) /\ config.DNS_RESOLVE
          /\ Available # <<>> /\ isValidIPv4(Available)) => HasPin(Available)
    /\ DnsBuild.stored => DnsBuild.dns.enabled
    /\ ~(Available # <<>> /\ isValidIPv4(Available)) => ~AnyPin

\* the seconds a resolution is to be kept for: dns.cache when it is a
\* number, 300 when it is true
SecondsOf(seconds) == IF seconds = Unset THEN 300 ELSE seconds[1]
\* C37: a resolution cached with dns.cache = n is reused by the builds
\* for the same host during n seconds (300 for dns.cache = true): no
\* lookup is made and the cached address is pinned; once that time has
\* passed the next build makes a fresh lookup.
C37_DnsCacheSeconds ==
  (DnsBuild.built /\ DnsBuild.dns.enabled /\ DnsBuild.dns.resolve = <<>>
     /\ config.DNS_RESOLVE /\ mapHas(probe.cachedAt, DnsBuild.url.host)
     /\ ~DnsBuild.stored) =>
    LET kept == mapGet(probe.cachedAt, DnsBuild.url.host)
        until == kept.at + SecondsOf(kept.seconds) * 1000
    IN IF now < until
       THEN ~DnsBuild.looked /\ CachedBefore # <<>> /\ HasPin(CachedBefore)
       ELSE DnsBuild.looked

\* C38: a call that resolves with an envelope has had its response
\* transformer applied exactly once, on the cache hit, on the fresh
\* invocation with or without a cache write and in streaming mode alike.
C38_TransformedOnce ==
  \A r \in Calls : (r.pc = "done" /\ r.outcome = "response") =>
    r.transforms = 1

\* every call made so far has resolved or rejected
AllSettled == \A r \in Calls : r.pc = "done"
\* C39: every call eventually resolves or rejects (a pending call is
\* followed by a moment where every call made has settled); once all
\* calls have settled the counter is 0, and a call made then is not
\* rejected by the admission check.
C39_State == AllSettled => concurrentRequests = 0
C39_Step ==
  \A s \in BagToSet(call') : (AllSettled /\ Entered(s)) => ~Rejected(s)
C39_Progress == ~AllSettled ~> AllSettled
C40_EvictsOldest ==
  /\ Len(data) <= config.maxItems
  /\ (probe.op = "set" /\ Len(probe.before) >= config.maxItems
        /\ ~mapHas(probe.before, probe.key)) =>
       /\ ~mapHas(data, probe.before[1].key)
       /\ mapHas(data, probe.before[Len(probe.before)].key)
====
